---- MODULE Spec2Model ----
(***************************************************************************)
(* Model of the maptoposter WASM rendering engine (src/wasm/src).          *)
(*                                                                         *)
(* f64 values are modelled as integers (degrees, kilometres, counts).  usize   *)
(* and u32 are the same machine word on the wasm32 target; the word is     *)
(* scaled down to UsizeBits bits so that saturation and wrap-around are    *)
(* reachable with small numbers.                                           *)
(***************************************************************************)
EXTENDS Integers, Sequences, FiniteSets, TLC

VARIABLES
    data,             \* the f64 buffer handed to a codec / binary draw routine
    fn,               \* which routine has been applied to data ("none" before)
    out,              \* what that routine returned / did
    overflow_checks,  \* TRUE: debug build (overflow panics), FALSE: release (wraps)
    alloc_limit,      \* the largest request, in bytes, the allocator grants
    scene,            \* the map data and configuration the host renders
    entry,            \* the entry point being executed
    pc,               \* position inside the entry point ("idle" between calls)
    req,              \* the call's request / configuration (mutable in the call)
    orig,             \* the request as it was received
    renderer,         \* the MapRenderer of the call, once constructed
    trace,            \* the layer calls made on the renderer, in order
    result,           \* the RenderResult returned by the call
    done              \* what the calls already finished returned

codecVars == <<data, fn, out>>

renderVars == <<scene, entry, pc, req, orig, renderer, trace, result, done>>

vars == <<data, fn, out, overflow_checks, alloc_limit, scene, entry, pc, req, orig, renderer, trace,
          result, done>>

----------------------------------------------------------------------------
(* Bounds *)

UsizeBits == 8          \* scaled-down width of usize / u32
MaxLat == 90       \* latitudes of the projection inputs, in degrees
MaxName == 5       \* city names have up to MaxName chars
MaxHeight == 9     \* pixmap heights of the gradient inputs
MaxGlyph == 2      \* glyph bitmaps are up to MaxGlyph x MaxGlyph
MaxShort == 3           \* every buffer up to this length is enumerated

----------------------------------------------------------------------------
(* Machine integers *)

Pow2Table ==
    << 1, 2, 4, 8, 16, 32, 64, 128, 256, 512, 1024, 2048, 4096, 8192, 16384, 32768,
       65536, 131072, 262144, 524288, 1048576, 2097152, 4194304, 8388608, 16777216,
       33554432, 67108864, 134217728, 268435456, 536870912, 1073741824 >>

\* 2^n, 0 <= n <= 30
Pow2(n) == Pow2Table[n + 1]

UsizeModulus == Pow2(UsizeBits)
UsizeMax == UsizeModulus - 1
IsizeMax == UsizeModulus \div 2 - 1

\* `x as usize` / `x as u32` on an f64: saturating, negative values give 0
AsUsize(v) == IF v < 0 THEN 0 ELSE IF v > UsizeMax THEN UsizeMax ELSE v

\* wrapping result of an unsigned operation and whether it overflowed
Wrap(n) == n % UsizeModulus
Ovf(n) == n > UsizeMax

\* 0-based indexing of a slice
At(d, i) == d[i + 1]

Min2(a, b) == IF a < b THEN a ELSE b

----------------------------------------------------------------------------
(* projection.rs *)

\* round(R * asinh(tan(d degrees))) for d = 0..90, R = 6378.137 km
MercatorTable ==
    << 0, 111, 223, 334, 446, 557, 669, 781, 893, 1006,
       1119, 1232, 1346, 1460, 1574, 1689, 1805, 1921, 2038, 2155,
       2273, 2392, 2512, 2632, 2753, 2876, 2999, 3123, 3249, 3376,
       3504, 3633, 3763, 3895, 4029, 4164, 4301, 4439, 4579, 4722,
       4866, 5012, 5161, 5312, 5465, 5622, 5780, 5942, 6107, 6275,
       6446, 6621, 6800, 6983, 7170, 7362, 7558, 7760, 7967, 8180,
       8400, 8626, 8859, 9100, 9350, 9608, 9877, 10156, 10447, 10751,
       11069, 11402, 11753, 12123, 12516, 12932, 13377, 13854, 14369, 14927,
       15539, 16214, 16968, 17822, 18807, 19972, 21397, 23233, 25819, 30241,
       242529 >>

\* at an odd multiple of 90 degrees lat_rad is a rounded multiple of pi / 2
\* and its tangent is large and finite, with a magnitude that depends on the
\* rounding: round(R * asinh(tan(lat_rad))) for lat = 90, 270, 450, 630, 810
PoleTable == << 242529, 235522, 232263, 230117, 228514 >>

\* y = asinh(tan(lat_rad)) * EARTH_RADIUS, in whole kilometres. tan and asinh
\* are odd, so y(-lat) = -y(lat); away from the odd multiples of 90 degrees
\* tan has period 180 to well within a kilometre (|lat| <= 1100)
MercatorY(lat) ==
    LET a == IF lat < 0 THEN 0 - lat ELSE lat
        r == ((lat + 89) % 180) - 89
    IN  IF a % 180 = 90
        THEN (IF lat < 0 THEN 0 - PoleTable[(a \div 180) + 1] ELSE PoleTable[(a \div 180) + 1])
        ELSE IF r >= 0 THEN MercatorTable[r + 1] ELSE 0 - MercatorTable[(0 - r) + 1]

\* x = lon_rad * EARTH_RADIUS = lon * 111.319 km, in whole kilometres
MercatorX(lon) == lon * 111 + (lon * 319 + 500) \div 1000

project_point(lon, lat) == <<MercatorX(lon), MercatorY(lat)>>

project_points(coords) ==
    [i \in 1..Len(coords) |-> project_point(coords[i][1], coords[i][2])]

\* project_point applied to a value that is already planar: the code takes
\* the metres for degrees. The result is kept as the planar value it was
\* computed from; 0 is mapped to 0 by both coordinates, every other value v
\* moves (x to v * pi / 180 * R, y to R * asinh(tan(v degrees)))
ProjectedAgain(v) == [planar |-> v, again |-> v # 0]

\* project_points on a slice whose values are in `u`: "degrees" as the
\* front end sends them, or "planar" as process_*_bin_wasm returns them
ProjectIn(coords, u) ==
    IF u = "degrees" THEN project_points(coords)
    ELSE [i \in 1..Len(coords) |->
             <<ProjectedAgain(coords[i][1]), ProjectedAgain(coords[i][2])>>]

----------------------------------------------------------------------------
(* types.rs *)

RoadTypes == <<"Motorway", "Primary", "Secondary", "Tertiary", "Residential", "Default">>

from_u32(val) ==
    CASE val = 0 -> "Motorway"
      [] val = 1 -> "Primary"
      [] val = 2 -> "Secondary"
      [] val = 3 -> "Tertiary"
      [] val = 4 -> "Residential"
      [] OTHER -> "Default"

\* to_u32 with the codes of the last two variants exchanged
to_u32Exchanged(t) ==
    CASE t = "Motorway" -> 0
      [] t = "Primary" -> 1
      [] t = "Secondary" -> 2
      [] t = "Tertiary" -> 3
      [] t = "Residential" -> 5
      [] t = "Default" -> 4

to_u32(t) ==
    CASE t = "Motorway" -> 0
      [] t = "Primary" -> 1
      [] t = "Secondary" -> 2
      [] t = "Tertiary" -> 3
      [] t = "Residential" -> 4
      [] t = "Default" -> 5

\* size_of::<T>() on wasm32, in bytes
SizeOfRoad == 16          \* Vec<(f64,f64)> (12) + RoadType (1), aligned to 4
SizeOfPolyFeature == 24   \* two Vecs
SizeOfCoord == 16         \* (f64, f64)
SizeOfRing == 12          \* Vec<(f64,f64)>
SizeOfF64 == 8
BytesPerPixel == 4        \* Pixmap: RGBA8

\* Vec::with_capacity(n) panics with "capacity overflow" when the byte size
\* of the allocation exceeds isize::MAX
CapacityOverflow(n, size) == n * size > IsizeMax

\* below that size the request goes to the allocator, which may refuse it
\* (memory.grow fails): handle_alloc_error aborts, a trap in WASM. What the
\* allocator grants depends on the memory of the host, not on the program
AllocFails(n, size) == n * size > alloc_limit

\* above every request of the model: a host that grants them all
NoAllocLimit == Pow2(30)

\* a host that grants every request, and one short of memory
AllocLimits == {NoAllocLimit, IsizeMax \div 2}

\* Vec<f64> grown by push from Vec::new(): the capacity after n pushes, from
\* cap (RawVec::grow_amortized doubles, starting at 4 for 8-byte elements)
RECURSIVE GrownCapacity(_, _)
GrownCapacity(cap, n) == IF cap >= n THEN cap ELSE GrownCapacity(2 * cap, n)

----------------------------------------------------------------------------
(* data_processor.rs *)

\* the n coordinate pairs stored from index off on
PairsAt(d, off, n) ==
    [i \in 1..n |-> <<At(d, off + 2 * (i - 1)), At(d, off + 2 * (i - 1) + 1)>>]

\* ReadPairs with an inclusive range, `0..=n`: one pair too many
ReadPairsInclusive(d, off, n) ==
    LET len == Len(d)
        avail == IF off >= len THEN 0 ELSE (len - off) \div 2
        m == Min2(n + 1, avail)
    IN  [coords |-> [i \in 1..m |-> <<At(d, off + 2 * (i - 1)), At(d, off + 2 * (i - 1) + 1)>>],
         reads |-> {off + j : j \in 0..(2 * m - 1)}
                   \cup (IF n + 1 > avail
                         THEN (IF off + 2 * m < len THEN {off + 2 * m, len} ELSE {off + 2 * m})
                         ELSE {}),
         oob |-> n + 1 > avail,
         off |-> off + 2 * m]

\* for _ in 0..n { v.push((data[offset], data[offset + 1])); offset += 2; }
\* A slice index at or past data.len() panics.
ReadPairs(d, off, n) ==
    LET len == Len(d)
        avail == IF off >= len THEN 0 ELSE (len - off) \div 2
        m == Min2(n, avail)
    IN  [coords |-> [i \in 1..m |-> <<At(d, off + 2 * (i - 1)), At(d, off + 2 * (i - 1) + 1)>>],
         reads |-> {off + j : j \in 0..(2 * m - 1)}
                   \cup (IF n > avail
                         THEN (IF off + 2 * m < len THEN {off + 2 * m, len} ELSE {off + 2 * m})
                         ELSE {}),
         oob |-> n > avail,
         off |-> off + 2 * m]

Panic(st, why) == [st EXCEPT !.status = "panic", !.why = why]

\* one iteration of the `for _ in 0..road_count` loop; status "break" ends it
ParseRoadsStep(d, chk, u, st) ==
    LET len == Len(d)
        hdr == st.off + 2
    IN  IF Ovf(hdr) /\ chk THEN Panic(st, "arithmetic overflow")
        ELSE IF Wrap(hdr) > len THEN [st EXCEPT !.status = "break", !.ovf = @ \/ Ovf(hdr)]
        ELSE IF st.off + 1 >= len
        THEN Panic([st EXCEPT !.reads = @ \cup {st.off, st.off + 1}, !.ovf = TRUE],
                   "index out of bounds")
        ELSE
        LET type_val == AsUsize(At(d, st.off))
            point_count == AsUsize(At(d, st.off + 1))
            offset == Wrap(hdr)
            twice == point_count * 2
            need == offset + Wrap(twice)
            anyovf == st.ovf \/ Ovf(hdr) \/ Ovf(twice) \/ Ovf(need)
            s1 == [st EXCEPT !.reads = @ \cup {st.off, st.off + 1}, !.off = offset,
                             !.ovf = anyovf]
        IN  IF (Ovf(twice) \/ Ovf(need)) /\ chk THEN Panic(s1, "arithmetic overflow")
            ELSE IF Wrap(need) > len THEN [s1 EXCEPT !.status = "break"]
            ELSE IF CapacityOverflow(point_count, SizeOfCoord)
            THEN Panic(s1, "capacity overflow")
            ELSE IF AllocFails(point_count, SizeOfCoord)
            THEN Panic(s1, "memory allocation failed")
            ELSE
            LET rp == ReadPairs(d, offset, point_count)
                s2 == [s1 EXCEPT !.reads = @ \cup rp.reads, !.off = rp.off]
            IN  IF rp.oob THEN Panic(s2, "index out of bounds")
                ELSE [s2 EXCEPT !.feats = Append(@, [coords |-> ProjectIn(rp.coords, u),
                                                     road_type |-> from_u32(type_val)])]

RECURSIVE ParseRoadsLoop(_, _, _, _, _)
ParseRoadsLoop(d, chk, u, k, st) ==
    IF k = 0 \/ st.status # "run" THEN st
    ELSE ParseRoadsLoop(d, chk, u, k - 1, ParseRoadsStep(d, chk, u, st))

StartState == [off |-> 1, feats |-> <<>>, reads |-> {0}, ovf |-> FALSE,
               status |-> "run", why |-> "none"]

\* Ok(vec) is status "ok"; a panic (trap in WASM) is status "panic"
Finish(st) ==
    [status |-> IF st.status = "panic" THEN "panic" ELSE "ok",
     why |-> st.why, feats |-> st.feats, reads |-> st.reads, ovf |-> st.ovf]

parse_roads_bin(d, chk, u) ==
    IF Len(d) = 0
    THEN [status |-> "ok", why |-> "none", feats |-> <<>>, reads |-> {}, ovf |-> FALSE]
    ELSE LET road_count == AsUsize(At(d, 0))
         IN  IF CapacityOverflow(road_count, SizeOfRoad)
             THEN Finish(Panic(StartState, "capacity overflow"))
             ELSE IF AllocFails(road_count, SizeOfRoad)
             THEN Finish(Panic(StartState, "memory allocation failed"))
             ELSE Finish(ParseRoadsLoop(d, chk, u, road_count, StartState))

\* one iteration of the `for _ in 0..interior_ring_count` loop
ParseRingStep(d, chk, u, st) ==
    LET len == Len(d)
        hdr == st.off + 1
    IN  IF Ovf(hdr) /\ chk THEN Panic(st, "arithmetic overflow")
        ELSE IF Wrap(hdr) > len THEN [st EXCEPT !.status = "break", !.ovf = @ \/ Ovf(hdr)]
        ELSE IF st.off >= len
        THEN Panic([st EXCEPT !.reads = @ \cup {st.off}, !.ovf = TRUE], "index out of bounds")
        ELSE
        LET ring_point_count == AsUsize(At(d, st.off))
            offset == Wrap(hdr)
            twice == ring_point_count * 2
            need == offset + Wrap(twice)
            anyovf == st.ovf \/ Ovf(hdr) \/ Ovf(twice) \/ Ovf(need)
            s1 == [st EXCEPT !.reads = @ \cup {st.off}, !.off = offset, !.ovf = anyovf]
        IN  IF (Ovf(twice) \/ Ovf(need)) /\ chk THEN Panic(s1, "arithmetic overflow")
            ELSE IF Wrap(need) > len THEN [s1 EXCEPT !.status = "break"]
            ELSE IF CapacityOverflow(ring_point_count, SizeOfCoord)
            THEN Panic(s1, "capacity overflow")
            ELSE IF AllocFails(ring_point_count, SizeOfCoord)
            THEN Panic(s1, "memory allocation failed")
            ELSE
            LET rp == ReadPairs(d, offset, ring_point_count)
                s2 == [s1 EXCEPT !.reads = @ \cup rp.reads, !.off = rp.off]
            IN  IF rp.oob THEN Panic(s2, "index out of bounds")
                ELSE [s2 EXCEPT !.feats = Append(@, ProjectIn(rp.coords, u))]

RECURSIVE ParseRingsLoop(_, _, _, _, _)
ParseRingsLoop(d, chk, u, k, st) ==
    IF k = 0 \/ st.status # "run" THEN st
    ELSE ParseRingsLoop(d, chk, u, k - 1, ParseRingStep(d, chk, u, st))

\* one iteration of the `for _ in 0..poly_count` loop
ParsePolygonsStep(d, chk, u, st) ==
    LET len == Len(d)
        hdr == st.off + 2
    IN  IF Ovf(hdr) /\ chk THEN Panic(st, "arithmetic overflow")
        ELSE IF Wrap(hdr) > len THEN [st EXCEPT !.status = "break", !.ovf = @ \/ Ovf(hdr)]
        ELSE IF st.off + 1 >= len
        THEN Panic([st EXCEPT !.reads = @ \cup {st.off, st.off + 1}, !.ovf = TRUE],
                   "index out of bounds")
        ELSE
        LET exterior_count == AsUsize(At(d, st.off))
            interior_ring_count == AsUsize(At(d, st.off + 1))
            offset == Wrap(hdr)
            twice == exterior_count * 2
            need == offset + Wrap(twice)
            anyovf == st.ovf \/ Ovf(hdr) \/ Ovf(twice) \/ Ovf(need)
            s1 == [st EXCEPT !.reads = @ \cup {st.off, st.off + 1}, !.off = offset,
                             !.ovf = anyovf]
        IN  IF (Ovf(twice) \/ Ovf(need)) /\ chk THEN Panic(s1, "arithmetic overflow")
            ELSE IF Wrap(need) > len THEN [s1 EXCEPT !.status = "break"]
            ELSE IF CapacityOverflow(exterior_count, SizeOfCoord)
            THEN Panic(s1, "capacity overflow")
            ELSE IF AllocFails(exterior_count, SizeOfCoord)
            THEN Panic(s1, "memory allocation failed")
            ELSE
            LET rp == ReadPairs(d, offset, exterior_count)
                s2 == [s1 EXCEPT !.reads = @ \cup rp.reads, !.off = rp.off]
            IN  IF rp.oob THEN Panic(s2, "index out of bounds")
                ELSE IF CapacityOverflow(interior_ring_count, SizeOfRing)
                THEN Panic(s2, "capacity overflow")
                ELSE IF AllocFails(interior_ring_count, SizeOfRing)
                THEN Panic(s2, "memory allocation failed")
                ELSE
                \* a `break` in the ring loop leaves only the ring loop: the
                \* polygon is pushed with the rings read so far and the outer
                \* loop goes on from the offset the ring loop stopped at
                LET rl == ParseRingsLoop(d, chk, u, interior_ring_count,
                                         [s2 EXCEPT !.feats = <<>>])
                IN  IF rl.status = "panic" THEN [rl EXCEPT !.feats = st.feats]
                    ELSE [rl EXCEPT !.status = "run",
                                    !.feats = Append(st.feats,
                                        [exterior |-> ProjectIn(rp.coords, u),
                                         interiors |-> rl.feats])]

RECURSIVE ParsePolygonsLoop(_, _, _, _, _)
ParsePolygonsLoop(d, chk, u, k, st) ==
    IF k = 0 \/ st.status # "run" THEN st
    ELSE ParsePolygonsLoop(d, chk, u, k - 1, ParsePolygonsStep(d, chk, u, st))

parse_polygons_bin(d, chk, u) ==
    IF Len(d) = 0
    THEN [status |-> "ok", why |-> "none", feats |-> <<>>, reads |-> {}, ovf |-> FALSE]
    ELSE LET poly_count == AsUsize(At(d, 0))
         IN  IF CapacityOverflow(poly_count, SizeOfPolyFeature)
             THEN Finish(Panic(StartState, "capacity overflow"))
             ELSE IF AllocFails(poly_count, SizeOfPolyFeature)
             THEN Finish(Panic(StartState, "memory allocation failed"))
             ELSE Finish(ParsePolygonsLoop(d, chk, u, poly_count, StartState))

----------------------------------------------------------------------------
(* lib.rs: the encoders of the re-packaged output mode *)

RECURSIVE FlattenCoords(_)
FlattenCoords(coords) ==
    IF Len(coords) = 0 THEN <<>>
    ELSE <<coords[1][1], coords[1][2]>> \o FlattenCoords(Tail(coords))

\* for road in roads { push type; push coords.len(); push x, y ... }
RECURSIVE EncodeRoadRecords(_)
EncodeRoadRecords(roads) ==
    IF Len(roads) = 0 THEN <<>>
    ELSE <<to_u32(roads[1].road_type), Len(roads[1].coords)>>
         \o FlattenCoords(roads[1].coords) \o EncodeRoadRecords(Tail(roads))

EncodeRoads(roads) == <<Len(roads)>> \o EncodeRoadRecords(roads)

RECURSIVE EncodeRings(_)
EncodeRings(rings) ==
    IF Len(rings) = 0 THEN <<>>
    ELSE <<Len(rings[1])>> \o FlattenCoords(rings[1]) \o EncodeRings(Tail(rings))

RECURSIVE EncodePolygonRecords(_)
EncodePolygonRecords(polys) ==
    IF Len(polys) = 0 THEN <<>>
    ELSE <<Len(polys[1].exterior), Len(polys[1].interiors)>>
         \o FlattenCoords(polys[1].exterior) \o EncodeRings(polys[1].interiors)
         \o EncodePolygonRecords(Tail(polys))

EncodePolygons(polys) == <<Len(polys)>> \o EncodePolygonRecords(polys)

\* the call did not return: a panic or an abort, both a trap in WASM
Trapped(why) == [status |-> "panic", why |-> why, feats |-> <<>>, wire |-> <<>>]

\* parse, then write the parsed features back in the wire format. The result
\* vector is requested with Vec::with_capacity(data.len() + 2) before the
\* test for an empty input; the slice itself has 8 * len bytes, so the size
\* of the request is within isize::MAX and only the allocator can refuse it
process_roads_bin_wasm(d, chk) ==
    LET p == parse_roads_bin(d, chk, "degrees")
    IN  IF p.status = "panic" THEN Trapped(p.why)
        ELSE IF AllocFails(Len(d) + 2, SizeOfF64) THEN Trapped("memory allocation failed")
        ELSE [status |-> "ok", why |-> p.why, feats |-> p.feats,
              wire |-> IF Len(d) = 0 THEN <<>> ELSE EncodeRoads(p.feats)]

\* the result vector starts as Vec::new() and grows with every push beyond
\* its capacity; the last request is the largest
process_polygons_bin_wasm(d, chk) ==
    LET p == parse_polygons_bin(d, chk, "degrees")
    IN  IF p.status = "panic" THEN Trapped(p.why)
        ELSE IF AllocFails(GrownCapacity(4, Len(EncodePolygons(p.feats))), SizeOfF64)
        THEN Trapped("memory allocation failed")
        ELSE [status |-> "ok", why |-> p.why, feats |-> p.feats,
              wire |-> EncodePolygons(p.feats)]

----------------------------------------------------------------------------
(* utils.rs: a string is the sequence of its chars; "U+00DF" is the sharp s *)
(* and "U+4E1C" a CJK ideograph                                            *)

\* char::is_alphabetic
is_alphabetic(c) == c \in {"P", "a", "r", "A", "R", "S", "U+00DF", "U+4E1C"}

\* (c as u32) < 0x250: the Latin blocks
BelowLatinEnd(c) == c \in {"P", "a", "r", "A", "R", "S", "U+00DF", " "}

\* char::to_uppercase: one char can become several
CharUpper(c) ==
    CASE c = "a" -> <<"A">>
      [] c = "r" -> <<"R">>
      [] c = "U+00DF" -> <<"S", "S">>
      [] OTHER -> <<c>>

\* str::to_uppercase
RECURSIVE to_uppercase(_)
to_uppercase(text) ==
    IF Len(text) = 0 THEN <<>> ELSE CharUpper(text[1]) \o to_uppercase(Tail(text))

\* more than 0.8 of the alphabetic chars are below U+0250; a text with no
\* alphabetic char counts as Latin
is_latin_script(text) ==
    LET total_alpha == Len(SelectSeq(text, is_alphabetic))
        latin_count == Len(SelectSeq(text, LAMBDA c : is_alphabetic(c) /\ BelowLatinEnd(c)))
    IN  IF Len(text) = 0 \/ total_alpha = 0 THEN TRUE
        ELSE 5 * latin_count > 4 * total_alpha

\* join with a separator of one space
RECURSIVE JoinOneSpace(_)
JoinOneSpace(chars) ==
    IF Len(chars) = 0 THEN <<>>
    ELSE IF Len(chars) = 1 THEN chars
    ELSE <<chars[1], " ">> \o JoinOneSpace(Tail(chars))

\* .join("  ") of the one-char strings
RECURSIVE JoinTwoSpaces(_)
JoinTwoSpaces(chars) ==
    IF Len(chars) = 0 THEN <<>>
    ELSE IF Len(chars) = 1 THEN chars
    ELSE <<chars[1], " ", " ">> \o JoinTwoSpaces(Tail(chars))

format_city_name(city) ==
    IF is_latin_script(city) THEN JoinTwoSpaces(to_uppercase(city)) ELSE city

----------------------------------------------------------------------------
(* renderer.rs *)

\* injected theme: semantic key -> colour
Theme == [bg |-> "#F5F0E8", text |-> "#222222", gradient_color |-> "#F5F0E9",
          water |-> "#A8C8E0", parks |-> "#C8DDB8",
          road_motorway |-> "#101010", road_primary |-> "#303030",
          road_secondary |-> "#505050", road_tertiary |-> "#707070",
          road_residential |-> "#909090", road_default |-> "#B0B0B0"]

\* the `match road_type { ... }` colour lookup of the road draw routines
RoadColor(theme, t) ==
    CASE t = "Motorway" -> theme.road_motorway
      [] t = "Primary" -> theme.road_primary
      [] t = "Secondary" -> theme.road_secondary
      [] t = "Tertiary" -> theme.road_tertiary
      [] t = "Residential" -> theme.road_residential
      [] t = "Default" -> theme.road_default

\* base widths in tenths of a pixel
BaseWidth10(t) ==
    CASE t = "Motorway" -> 12
      [] t = "Primary" -> 10
      [] t = "Secondary" -> 8
      [] t = "Tertiary" -> 6
      [] t \in {"Residential", "Default"} -> 4

PythonStandardHeightPx == 4800

\* calculate_road_width_scale that applies the frontend multiplier
calculate_road_width_scaleTimesFrontend(selected_size_height, frontend_scale) ==
    selected_size_height * frontend_scale

\* selected_size_height / 4800, kept as the numerator over 4800
calculate_road_width_scale(selected_size_height, frontend_scale) == selected_size_height

\* base_width * scale_factor, as the numerator over 10 * 4800
get_width_scaled(t, scale_factor) == BaseWidth10(t) * scale_factor

RESOLUTION_SCALE == 8

\* base_width * RESOLUTION_SCALE, over 10 * 4800 as get_width_scaled
get_width(t) == BaseWidth10(t) * RESOLUTION_SCALE * PythonStandardHeightPx

\* strokes of the fixed width of their class
FixedWidth(ops) == [i \in 1..Len(ops) |-> [ops[i] EXCEPT !.width = get_width(ops[i].class)]]

\* world_to_screen without the flip of the Y axis
world_to_screenUnflipped(r, c) ==
    << ((c[1] - r.bounds.min_x) * r.width) \div (r.bounds.max_x - r.bounds.min_x),
       ((c[2] - r.bounds.min_y) * r.height) \div (r.bounds.max_y - r.bounds.min_y) >>

\* screen position in whole pixels
world_to_screen(r, c) ==
    << ((c[1] - r.bounds.min_x) * r.width) \div (r.bounds.max_x - r.bounds.min_x),
       r.height - ((c[2] - r.bounds.min_y) * r.height) \div (r.bounds.max_y - r.bounds.min_y) >>

ToScreen(r, coords) == [i \in 1..Len(coords) |-> world_to_screen(r, coords[i])]

DrawStart == [off |-> 1, reads |-> {0}, ovf |-> FALSE, status |-> "run", why |-> "none",
              pbs |-> [t \in 0..5 |-> <<>>], found |-> [t \in 0..5 |-> FALSE]]

\* DrawRoadsBinStep that leaves a record of fewer than 2 points with `continue`
\* before the offset is advanced past its points
DrawRoadsBinStepNoSkip(r, d, chk, st) ==
    LET len == Len(d)
        hdr == st.off + 2
    IN  IF Ovf(hdr) /\ chk THEN Panic(st, "arithmetic overflow")
        ELSE IF Wrap(hdr) > len THEN [st EXCEPT !.status = "break", !.ovf = @ \/ Ovf(hdr)]
        ELSE IF st.off + 1 >= len
        THEN Panic([st EXCEPT !.reads = @ \cup {st.off, st.off + 1}, !.ovf = TRUE],
                   "index out of bounds")
        ELSE
        LET t == AsUsize(At(d, st.off))
            count == AsUsize(At(d, st.off + 1))
            curr_offset == Wrap(hdr)
            twice == count * 2
            need == curr_offset + Wrap(twice)
            s1 == [st EXCEPT !.reads = @ \cup {st.off, st.off + 1}, !.off = curr_offset,
                             !.ovf = @ \/ Ovf(hdr) \/ Ovf(twice) \/ Ovf(need)]
            fits == Wrap(need) <= len /\ count >= 2
            rp == ReadPairs(d, curr_offset, count)
            s2 == IF t < 6 /\ fits
                  THEN [s1 EXCEPT !.reads = @ \cup rp.reads,
                                  !.pbs[t] = Append(@, [pts |-> ToScreen(r, rp.coords),
                                                        closed |-> FALSE]),
                                  !.found[t] = TRUE]
                  ELSE s1
        IN  IF (Ovf(twice) \/ Ovf(need)) /\ chk THEN Panic(s1, "arithmetic overflow")
            ELSE IF t < 6 /\ fits /\ rp.oob
            THEN Panic([s1 EXCEPT !.reads = @ \cup rp.reads], "index out of bounds")
            ELSE IF count < 2 THEN s2
            ELSE [s2 EXCEPT !.off = Wrap(need)]

\* one iteration of the record loop of draw_roads_bin_scaled
DrawRoadsBinStep(r, d, chk, st) ==
    LET len == Len(d)
        hdr == st.off + 2
    IN  IF Ovf(hdr) /\ chk THEN Panic(st, "arithmetic overflow")
        ELSE IF Wrap(hdr) > len THEN [st EXCEPT !.status = "break", !.ovf = @ \/ Ovf(hdr)]
        ELSE IF st.off + 1 >= len
        THEN Panic([st EXCEPT !.reads = @ \cup {st.off, st.off + 1}, !.ovf = TRUE],
                   "index out of bounds")
        ELSE
        LET t == AsUsize(At(d, st.off))
            count == AsUsize(At(d, st.off + 1))
            curr_offset == Wrap(hdr)
            twice == count * 2
            need == curr_offset + Wrap(twice)
            s1 == [st EXCEPT !.reads = @ \cup {st.off, st.off + 1}, !.off = curr_offset,
                             !.ovf = @ \/ Ovf(hdr) \/ Ovf(twice) \/ Ovf(need)]
            fits == Wrap(need) <= len /\ count >= 2
            rp == ReadPairs(d, curr_offset, count)
            s2 == IF t < 6 /\ fits
                  THEN [s1 EXCEPT !.reads = @ \cup rp.reads,
                                  !.pbs[t] = Append(@, [pts |-> ToScreen(r, rp.coords),
                                                        closed |-> FALSE]),
                                  !.found[t] = TRUE]
                  ELSE s1
        IN  IF (Ovf(twice) \/ Ovf(need)) /\ chk THEN Panic(s1, "arithmetic overflow")
            ELSE IF t < 6 /\ fits /\ rp.oob
            THEN Panic([s1 EXCEPT !.reads = @ \cup rp.reads], "index out of bounds")
            ELSE [s2 EXCEPT !.off = Wrap(need)]

RECURSIVE DrawRoadsBinLoop(_, _, _, _, _)
DrawRoadsBinLoop(r, d, chk, k, st) ==
    IF k = 0 \/ st.status # "run" THEN st
    ELSE DrawRoadsBinLoop(r, d, chk, k - 1, DrawRoadsBinStep(r, d, chk, st))

\* one stroke for every road of the class
PerRoadStrokes(theme, paths, scale_factor, t_idx) ==
    [k \in 1..Len(paths) |->
        [op |-> "stroke", class |-> from_u32(t_idx),
         color |-> RoadColor(theme, from_u32(t_idx)),
         width |-> get_width_scaled(from_u32(t_idx), scale_factor),
         path |-> <<paths[k]>>]]

\* StrokeClasses that strokes road by road instead of once per class
RECURSIVE StrokeClassesPerRoad(_, _, _, _)
StrokeClassesPerRoad(theme, st, scale_factor, t_idx) ==
    IF t_idx > 5 THEN <<>>
    ELSE (IF st.found[t_idx] THEN PerRoadStrokes(theme, st.pbs[t_idx], scale_factor, t_idx)
          ELSE <<>>)
         \o StrokeClassesPerRoad(theme, st, scale_factor, t_idx + 1)

\* the strokes of classes t_idx..5, in index order
RECURSIVE StrokeClasses(_, _, _, _)
StrokeClasses(theme, st, scale_factor, t_idx) ==
    IF t_idx > 5 THEN <<>>
    ELSE (IF st.found[t_idx] /\ Len(st.pbs[t_idx]) > 0
          THEN << [op |-> "stroke", class |-> from_u32(t_idx),
                   color |-> RoadColor(theme, from_u32(t_idx)),
                   width |-> get_width_scaled(from_u32(t_idx), scale_factor),
                   path |-> st.pbs[t_idx]] >>
          ELSE <<>>)
         \o StrokeClasses(theme, st, scale_factor, t_idx + 1)

draw_roads_bin_scaled(r, d, chk, scale_factor) ==
    IF Len(d) = 0
    THEN [status |-> "ok", why |-> "none", ops |-> <<>>, reads |-> {}, ovf |-> FALSE]
    ELSE LET st == DrawRoadsBinLoop(r, d, chk, AsUsize(At(d, 0)), DrawStart)
         IN  [status |-> IF st.status = "panic" THEN "panic" ELSE "ok",
              why |-> st.why,
              ops |-> IF st.status = "panic" THEN <<>>
                      ELSE StrokeClasses(r.theme, st, scale_factor, 0),
              reads |-> st.reads, ovf |-> st.ovf]

\* draw_roads_bin: the record loop and the class loop of draw_roads_bin_scaled,
\* line for line, with get_width() for get_width_scaled(scale_factor)
draw_roads_bin(r, d, chk) ==
    LET scaled == draw_roads_bin_scaled(r, d, chk, 1)
    IN  [scaled EXCEPT !.ops = FixedWidth(@)]

PolyStart == [off |-> 1, reads |-> {0}, ovf |-> FALSE, status |-> "run", why |-> "none",
              path |-> <<>>, found |-> FALSE]

\* one iteration of the interior-ring loop of draw_polygons_bin
DrawRingStep(r, d, chk, st) ==
    LET len == Len(d)
        hdr == st.off + 1
    IN  IF Ovf(hdr) /\ chk THEN Panic(st, "arithmetic overflow")
        ELSE IF Wrap(hdr) > len THEN [st EXCEPT !.status = "break", !.ovf = @ \/ Ovf(hdr)]
        ELSE IF st.off >= len
        THEN Panic([st EXCEPT !.reads = @ \cup {st.off}, !.ovf = TRUE], "index out of bounds")
        ELSE
        LET count == AsUsize(At(d, st.off))
            offset == Wrap(hdr)
            twice == count * 2
            need == offset + Wrap(twice)
            s1 == [st EXCEPT !.reads = @ \cup {st.off}, !.off = offset,
                             !.ovf = @ \/ Ovf(hdr) \/ Ovf(twice) \/ Ovf(need)]
            fits == Wrap(need) <= len /\ count >= 3
            rp == ReadPairs(d, offset, count)
        IN  IF (Ovf(twice) \/ Ovf(need)) /\ chk THEN Panic(s1, "arithmetic overflow")
            ELSE IF fits /\ rp.oob
            THEN Panic([s1 EXCEPT !.reads = @ \cup rp.reads], "index out of bounds")
            ELSE IF fits
            THEN [s1 EXCEPT !.reads = @ \cup rp.reads, !.off = Wrap(need),
                            !.path = Append(@, [pts |-> ToScreen(r, rp.coords),
                                                closed |-> TRUE])]
            ELSE [s1 EXCEPT !.off = Wrap(need)]

RECURSIVE DrawRingsLoop(_, _, _, _, _)
DrawRingsLoop(r, d, chk, k, st) ==
    IF k = 0 \/ st.status # "run" THEN st
    ELSE DrawRingsLoop(r, d, chk, k - 1, DrawRingStep(r, d, chk, st))

\* one iteration of the polygon loop of draw_polygons_bin
DrawPolygonsBinStep(r, d, chk, st) ==
    LET len == Len(d)
        hdr == st.off + 2
    IN  IF Ovf(hdr) /\ chk THEN Panic(st, "arithmetic overflow")
        ELSE IF Wrap(hdr) > len THEN [st EXCEPT !.status = "break", !.ovf = @ \/ Ovf(hdr)]
        ELSE IF st.off + 1 >= len
        THEN Panic([st EXCEPT !.reads = @ \cup {st.off, st.off + 1}, !.ovf = TRUE],
                   "index out of bounds")
        ELSE
        LET ext_count == AsUsize(At(d, st.off))
            int_ring_count == AsUsize(At(d, st.off + 1))
            offset == Wrap(hdr)
            twice == ext_count * 2
            need == offset + Wrap(twice)
            s1 == [st EXCEPT !.reads = @ \cup {st.off, st.off + 1}, !.off = offset,
                             !.ovf = @ \/ Ovf(hdr) \/ Ovf(twice) \/ Ovf(need)]
            fits == Wrap(need) <= len /\ ext_count >= 3
            rp == ReadPairs(d, offset, ext_count)
            s2 == IF fits
                  THEN [s1 EXCEPT !.reads = @ \cup rp.reads, !.off = Wrap(need),
                                  !.path = Append(@, [pts |-> ToScreen(r, rp.coords),
                                                      closed |-> TRUE]),
                                  !.found = TRUE]
                  ELSE [s1 EXCEPT !.off = Wrap(need)]
        IN  IF (Ovf(twice) \/ Ovf(need)) /\ chk THEN Panic(s1, "arithmetic overflow")
            ELSE IF fits /\ rp.oob
            THEN Panic([s1 EXCEPT !.reads = @ \cup rp.reads], "index out of bounds")
            ELSE LET rl == DrawRingsLoop(r, d, chk, int_ring_count, s2)
                 IN  IF rl.status = "panic" THEN rl ELSE [rl EXCEPT !.status = "run"]

RECURSIVE DrawPolygonsBinLoop(_, _, _, _, _)
DrawPolygonsBinLoop(r, d, chk, k, st) ==
    IF k = 0 \/ st.status # "run" THEN st
    ELSE DrawPolygonsBinLoop(r, d, chk, k - 1, DrawPolygonsBinStep(r, d, chk, st))

draw_polygons_bin(r, d, chk, color_hex) ==
    IF Len(d) = 0
    THEN [status |-> "ok", why |-> "none", ops |-> <<>>, reads |-> {}, ovf |-> FALSE]
    ELSE LET st == DrawPolygonsBinLoop(r, d, chk, AsUsize(At(d, 0)), PolyStart)
         IN  [status |-> IF st.status = "panic" THEN "panic" ELSE "ok",
              why |-> st.why,
              ops |-> IF st.status # "panic" /\ st.found /\ Len(st.path) > 0
                      THEN << [op |-> "fill", rule |-> "EvenOdd", color |-> color_hex,
                               path |-> st.path] >>
                      ELSE <<>>,
              reads |-> st.reads, ovf |-> st.ovf]

\* fill_path with FillRule::EvenOdd: a point is covered when a ray from it
\* crosses the contours of the path an odd number of times.  Ring vertices are
\* whole pixels; the point is given in half pixels (pixel centres are odd).
Crosses(a, b, pt) ==
    LET ax == 2 * a[1]
        ay == 2 * a[2]
        bx == 2 * b[1]
        by == 2 * b[2]
    IN  /\ (ay > pt[2]) # (by > pt[2])
        /\ IF by > ay
           THEN (pt[1] - ax) * (by - ay) < (pt[2] - ay) * (bx - ax)
           ELSE (pt[1] - ax) * (by - ay) > (pt[2] - ay) * (bx - ax)

RingCrossings(pts, pt) ==
    Cardinality({k \in 1..Len(pts) : Crosses(pts[k], pts[(k % Len(pts)) + 1], pt)})

InsideRing(pts, pt) == RingCrossings(pts, pt) % 2 = 1

EvenOddCovers(path, pt) ==
    Cardinality({i \in 1..Len(path) : InsideRing(path[i].pts, pt)}) % 2 = 1

\* the pixel centres of the canvas, in half pixels
PixelCentres(r) == {<<2 * i + 1, 2 * j + 1>> : i \in 0..(r.width - 1), j \in 0..(r.height - 1)}

\* structured path: add_poly_to_path appends the rings of one polygon
add_poly_to_path(r, poly) ==
    IF Len(poly.exterior) < 3 THEN <<>>
    ELSE <<[pts |-> ToScreen(r, poly.exterior), closed |-> TRUE]>>
         \o [i \in 1..Len(SelectSeq(poly.interiors, LAMBDA ring : Len(ring) >= 3)) |->
                [pts |-> ToScreen(r, SelectSeq(poly.interiors, LAMBDA ring : Len(ring) >= 3)[i]),
                 closed |-> TRUE]]

RECURSIVE PolyPath(_, _)
PolyPath(r, features) ==
    IF Len(features) = 0 THEN <<>>
    ELSE add_poly_to_path(r, features[1]) \o PolyPath(r, Tail(features))

\* draw_water / draw_parks: one path for all features, filled once
DrawPolyLayer(r, features, color_hex) ==
    IF Len(features) = 0 \/ Len(PolyPath(r, features)) = 0 THEN <<>>
    ELSE << [op |-> "fill", rule |-> "EvenOdd", color |-> color_hex,
             path |-> PolyPath(r, features)] >>

draw_water(r, water_features) == DrawPolyLayer(r, water_features, r.theme.water)

draw_parks(r, park_features) == DrawPolyLayer(r, park_features, r.theme.parks)

\* the path of one road class: the roads of that class with 2 or more points
ClassPath(r, roads, t) ==
    LET sel == SelectSeq(roads, LAMBDA road : road.road_type = t /\ Len(road.coords) >= 2)
    IN  [i \in 1..Len(sel) |-> [pts |-> ToScreen(r, sel[i].coords), closed |-> FALSE]]

\* draw_roads_scaled: `order` is the iteration order of the HashMap of groups,
\* a sequence of the classes that occur in roads
RECURSIVE StrokeGroups(_, _, _, _)
StrokeGroups(r, roads, scale_factor, order) ==
    IF Len(order) = 0 THEN <<>>
    ELSE (IF Len(ClassPath(r, roads, order[1])) > 0
          THEN << [op |-> "stroke", class |-> order[1],
                   color |-> RoadColor(r.theme, order[1]),
                   width |-> get_width_scaled(order[1], scale_factor),
                   path |-> ClassPath(r, roads, order[1])] >>
          ELSE <<>>)
         \o StrokeGroups(r, roads, scale_factor, Tail(order))

draw_roads_scaled(r, roads, scale_factor, order) == StrokeGroups(r, roads, scale_factor, order)

\* draw_roads: draw_roads_scaled, line for line, with get_width() for
\* get_width_scaled(scale_factor)
draw_roads(r, roads, order) == FixedWidth(draw_roads_scaled(r, roads, 1, order))

\* the iteration orders a HashMap keyed by the classes of roads can have
GroupOrders(roads) ==
    LET present == {roads[i].road_type : i \in 1..Len(roads)}
    IN  {o \in [1..Cardinality(present) -> present] :
            \A i, j \in 1..Cardinality(present) : i # j => o[i] # o[j]}

draw_background(r) == << [op |-> "fill_all", color |-> r.theme.bg] >>

\* bottom band first, then top band
draw_gradients(r) ==
    << [op |-> "gradient", location |-> "bottom", color |-> r.theme.gradient_color],
       [op |-> "gradient", location |-> "top", color |-> r.theme.gradient_color] >>

\* draw_text after the font has loaded: city, country, coordinates, attribution
draw_text(r) ==
    << [op |-> "text", item |-> "city", color |-> r.theme.text],
       [op |-> "text", item |-> "country", color |-> r.theme.text],
       [op |-> "text", item |-> "coordinates", color |-> r.theme.text],
       [op |-> "text", item |-> "attribution", color |-> r.theme.text] >>

\* parse_hex_color on the colours the pixel routines are given: "#RRGGBB" to
\* 8-bit channels, alpha 255
parse_hex_color(hex) ==
    CASE hex = "#F5F0E9" -> [r |-> 245, g |-> 240, b |-> 233, a |-> 255]
      [] hex = "#F5F0E8" -> [r |-> 245, g |-> 240, b |-> 232, a |-> 255]
      [] hex = "#222222" -> [r |-> 34, g |-> 34, b |-> 34, a |-> 255]

\* f32 values >= 0, as [m, e] for m * 2^e with 2^23 <= m < 2^24, or m = 0
F32Zero == [m |-> 0, e |-> 0]

\* the number of bits of n >= 0, four at a time
RECURSIVE BitLen(_)
BitLen(n) ==
    IF n >= 16 THEN 4 + BitLen(n \div 16)
    ELSE <<0, 1, 2, 2, 3, 3, 3, 3, 4, 4, 4, 4, 4, 4, 4, 4>>[n + 1]

\* the f32 nearest to m * 2^e (plus, when sticky, a fraction below the last
\* bit of m), ties to even; 0 <= m < 2^31
F32Round(m, e, sticky) ==
    IF m = 0 THEN F32Zero
    ELSE LET n == BitLen(m)
         IN  IF n <= 24 THEN [m |-> m * Pow2(24 - n), e |-> e - (24 - n)]
             ELSE LET s == n - 24
                      q == m \div Pow2(s)
                      r == m % Pow2(s)
                      half == Pow2(s - 1)
                      up == r > half \/ (r = half /\ (sticky \/ q % 2 = 1))
                  IN  IF up /\ q + 1 = Pow2(24) THEN [m |-> Pow2(23), e |-> e + s + 1]
                      ELSE [m |-> IF up THEN q + 1 ELSE q, e |-> e + s]

\* `n as f32`, 0 <= n < 2^31
F32FromInt(n) == F32Round(n, 0, FALSE)

\* a * b: the 48-bit product of the mantissas from 12-bit halves
F32Mul(a, b) ==
    IF a.m = 0 \/ b.m = 0 THEN F32Zero
    ELSE LET a1 == a.m \div 4096
             a0 == a.m % 4096
             b1 == b.m \div 4096
             b0 == b.m % 4096
             lo == a0 * b0
             mid == a1 * b0 + a0 * b1 + lo \div 4096
             top == a1 * b1 + mid \div 4096
             low24 == (mid % 4096) * 4096 + (lo % 4096)
         IN  F32Round(top * 64 + low24 \div 262144, a.e + b.e + 18, low24 % 262144 # 0)

\* n quotient bits of r / d by long division, r < 2 * d
RECURSIVE F32DivBits(_, _, _, _)
F32DivBits(r, d, n, q) ==
    IF n = 0 THEN [q |-> q, r |-> r]
    ELSE IF r >= d THEN F32DivBits(2 * (r - d), d, n - 1, 2 * q + 1)
    ELSE F32DivBits(2 * r, d, n - 1, 2 * q)

\* a / b, b > 0
F32Div(a, b) ==
    IF a.m = 0 THEN F32Zero
    ELSE LET qr == F32DivBits(a.m, b.m, 26, 0)
         IN  F32Round(qr.q, a.e - b.e - 25, qr.r # 0)

\* a + b
F32Add(a, b) ==
    IF a.m = 0 THEN b
    ELSE IF b.m = 0 THEN a
    ELSE LET hi == IF a.e >= b.e THEN a ELSE b
             lo == IF a.e >= b.e THEN b ELSE a
             d == hi.e - lo.e
         IN  IF d > 30 THEN F32Round(hi.m * 64, hi.e - 6, TRUE)
             ELSE F32Round(hi.m * 64 + (lo.m * 64) \div Pow2(d), hi.e - 6,
                           (lo.m * 64) % Pow2(d) # 0)

\* a - b for a >= b
F32Sub(a, b) ==
    IF b.m = 0 THEN a
    ELSE LET d == a.e - b.e
             sticky == d > 30 \/ ((b.m * 64) % Pow2(Min2(d, 30)) # 0)
             diff == a.m * 64 - (IF d > 30 THEN 0 ELSE (b.m * 64) \div Pow2(d))
                              - (IF sticky THEN 1 ELSE 0)
         IN  F32Round(diff, a.e - 6, sticky)

\* `x as u32` and `x as u8` for x >= 0: truncation, saturating
F32AsU32(a) ==
    IF a.m = 0 \/ 0 - a.e >= 24 THEN 0
    ELSE IF a.e >= 0 THEN a.m * Pow2(a.e)
    ELSE a.m \div Pow2(0 - a.e)

F32AsU8(a) == Min2(F32AsU32(a), 255)

F32Half == [m |-> 8388608, e |-> -24]
F32One == [m |-> 8388608, e |-> -23]
F32_255 == F32FromInt(255)

\* Color::from_rgba8: channel c as the f32 c / 255.0
NormalizedF32(c) == F32Div(F32FromInt(c), F32_255)

\* (x * 255.0 + 0.5), before the cast
Times255PlusHalf(x) == F32Add(F32Mul(x, F32_255), F32Half)

\* PremultipliedColorU8::from_rgba: None when a colour channel exceeds alpha
from_rgba(r, g, b, a) ==
    IF r <= a /\ g <= a /\ b <= a
    THEN [some |-> TRUE, px |-> [r |-> r, g |-> g, b |-> b, a |-> a]]
    ELSE [some |-> FALSE]

\* draw_gradient with the bottom band starting at half the height
GradientRowsHalf(height, location) ==
    IF location = "bottom"
    THEN [y_start |-> height \div 2, y_end |-> height]
    ELSE [y_start |-> 0, y_end |-> height \div 4]

\* the rows [y_start, y_end) of a band: (height as f32 * 0.75) as u32 and
\* (height as f32 * 0.25) as u32
GradientRows(height, location) ==
    IF location = "bottom"
    THEN [y_start |-> (3 * height) \div 4, y_end |-> height]
    ELSE [y_start |-> 0, y_end |-> height \div 4]

\* the interpolation factor t of row y, as a fraction
GradientT(rows, location, y) ==
    IF location = "bottom"
    THEN [num |-> y - rows.y_start, den |-> rows.y_end - rows.y_start]
    ELSE [num |-> rows.y_end - y, den |-> rows.y_end - rows.y_start]

\* the factors of the rows of a band
GradientFactors(height, location) ==
    LET rows == GradientRows(height, location)
    IN  [y \in rows.y_start..(rows.y_end - 1) |-> GradientT(rows, location, y)]

\* one pixel of a band row with alpha = t > 0, t the f32 quotient of the row
\* numbers: overwrite a transparent pixel, SrcOver on any other
GradientPixel(p, base, t) ==
    LET alpha == F32Mul(F32Div(F32FromInt(t.num), F32FromInt(t.den)), NormalizedF32(base.a))
        src_a_inv == F32Sub(F32One, alpha)
        isrc_r == F32AsU32(Times255PlusHalf(F32Mul(NormalizedF32(base.r), alpha)))
        isrc_g == F32AsU32(Times255PlusHalf(F32Mul(NormalizedF32(base.g), alpha)))
        isrc_b == F32AsU32(Times255PlusHalf(F32Mul(NormalizedF32(base.b), alpha)))
    IN  IF p.a = 0
        THEN from_rgba(isrc_r % 256, isrc_g % 256, isrc_b % 256,
                       F32AsU8(Times255PlusHalf(alpha)))
        ELSE from_rgba(
                Min2(isrc_r + F32AsU32(F32Add(F32Mul(F32FromInt(p.r), src_a_inv), F32Half)), 255),
                Min2(isrc_g + F32AsU32(F32Add(F32Mul(F32FromInt(p.g), src_a_inv), F32Half)), 255),
                Min2(isrc_b + F32AsU32(F32Add(F32Mul(F32FromInt(p.b), src_a_inv), F32Half)), 255),
                F32AsU8(Times255PlusHalf(
                    F32Add(alpha, F32Mul(F32Div(F32FromInt(p.a), F32_255), src_a_inv)))))

\* one band on a pixmap [width, height, pixels, status]; pixel (px, py) is
\* pixels[py * width + px + 1]; `unwrap` on None panics
draw_gradient(pm, location, base_color) ==
    LET rows == GradientRows(pm.height, location)
        new == [i \in 1..Len(pm.pixels) |->
                  LET y == (i - 1) \div pm.width
                      t == GradientT(rows, location, y)
                  IN  IF y >= rows.y_start /\ y < rows.y_end /\ t.num > 0
                      THEN GradientPixel(pm.pixels[i], base_color, t)
                      ELSE [some |-> TRUE, px |-> pm.pixels[i]]]
    IN  IF pm.status = "panic" \/ rows.y_start >= rows.y_end THEN pm
        ELSE IF \E i \in 1..Len(pm.pixels) : ~new[i].some
             THEN [pm EXCEPT !.status = "panic"]
             ELSE [pm EXCEPT !.pixels = [i \in 1..Len(pm.pixels) |-> new[i].px]]

\* draw_gradients on the pixels: bottom band first, then top band
draw_gradients_pixels(pm, theme) ==
    draw_gradient(draw_gradient(pm, "bottom", parse_hex_color(theme.gradient_color)),
                  "top", parse_hex_color(theme.gradient_color))

\* SrcOver of the text colour with coverage alpha over the pixel dst, in f32
\* on channels in [0, 1]; None when a channel comes out above the alpha
GlyphBlend(dst, color, alpha) ==
    LET sa == F32Mul(F32Div(F32FromInt(alpha), F32_255), NormalizedF32(color.a))
        inv_sa == F32Sub(F32One, sa)
        Out(src, d) == F32AsU8(Times255PlusHalf(
                           F32Add(src, F32Mul(F32Div(F32FromInt(d), F32_255), inv_sa))))
    IN  from_rgba(Out(F32Mul(NormalizedF32(color.r), sa), dst.r),
                  Out(F32Mul(NormalizedF32(color.g), sa), dst.g),
                  Out(F32Mul(NormalizedF32(color.b), sa), dst.b),
                  Out(sa, dst.a))

\* GlyphStep without the test of px against the pixmap width
GlyphStepNoClip(pm, bitmap, width, x, y, color, k) ==
    LET dx == k % width
        dy == k \div width
        alpha == bitmap[k + 1]
        px == x + dx
        py == y + dy
        pixel_idx == py * pm.width + px
        c == GlyphBlend(pm.pixels[pixel_idx + 1], color, alpha)
    IN  IF alpha = 0 THEN pm
        ELSE IF pixel_idx >= 0 /\ pixel_idx < Len(pm.pixels) /\ py >= 0 /\ py < pm.height
             THEN IF c.some THEN [pm EXCEPT !.pixels[pixel_idx + 1] = c.px] ELSE pm
             ELSE pm

\* the body of the dy, dx loops of draw_glyph_bitmap for glyph pixel
\* k = dy * width + dx
GlyphStep(pm, bitmap, width, x, y, color, k) ==
    LET dx == k % width
        dy == k \div width
        alpha == bitmap[k + 1]
        px == x + dx
        py == y + dy
        pixel_idx == py * pm.width + px
        c == GlyphBlend(pm.pixels[pixel_idx + 1], color, alpha)
    IN  IF alpha = 0 THEN pm
        ELSE IF px >= 0 /\ px < pm.width /\ py >= 0 /\ py < pm.height
             THEN IF c.some THEN [pm EXCEPT !.pixels[pixel_idx + 1] = c.px] ELSE pm
             ELSE pm

RECURSIVE GlyphLoop(_, _, _, _, _, _, _, _)
GlyphLoop(pm, bitmap, width, height, x, y, color, k) ==
    IF k >= width * height THEN pm
    ELSE GlyphLoop(GlyphStep(pm, bitmap, width, x, y, color, k),
                   bitmap, width, height, x, y, color, k + 1)

draw_glyph_bitmap(pm, bitmap, width, height, x, y, color) ==
    GlyphLoop(pm, bitmap, width, height, x, y, color, 0)

\* POI markers (the marker routines are not part of renderer.rs)
draw_pois(r, pois) ==
    [i \in 1..Len(pois) |-> [op |-> "poi", at |-> world_to_screen(r, <<pois[i].x, pois[i].y>>)]]

draw_pois_bin(r, d) ==
    LET n == Min2(AsUsize(At(d, 0)), (Len(d) - 1) \div 2)
    IN  [i \in 1..n |-> [op |-> "poi", at |-> world_to_screen(r, PairsAt(d, 1, n)[i])]]

----------------------------------------------------------------------------
(* projection.rs: in-place projection and the viewing window *)

project_points_mut(coords) ==
    [i \in 1..Len(coords) |-> project_point(coords[i][1], coords[i][2])]

\* BoundsAxis that divides the radius by the aspect ratio where it is to be
\* multiplied: the stretched axis comes out shrunk
BoundsAxisInverted(c, radius, num, den) ==
    IF den # 0
    THEN [lo |-> c - (radius * den) \div num, hi |-> c + (radius * den) \div num,
          ext |-> "finite"]
    ELSE IF radius * num = 0 THEN [lo |-> 0, hi |-> 0, ext |-> "nan"]
    ELSE IF radius * num > 0 THEN [lo |-> 0, hi |-> 0, ext |-> "inf"]
    ELSE [lo |-> 0, hi |-> 0, ext |-> "neg_inf"]

\* one axis of the box around centre c.  The half-extent is radius on the axis
\* that is kept and radius * num / den on the stretched one; den = 0 is the
\* f64 division by zero: x / 0 is infinite for x # 0 and NaN for x = 0, and
\* c - inf, c + inf are -inf, +inf.  lo and hi are meaningful when ext is "finite".
BoundsAxis(c, radius, num, den) ==
    IF den # 0
    THEN [lo |-> c - (radius * num) \div den, hi |-> c + (radius * num) \div den,
          ext |-> "finite"]
    ELSE IF radius * num = 0 THEN [lo |-> 0, hi |-> 0, ext |-> "nan"]
    ELSE IF radius * num > 0 THEN [lo |-> 0, hi |-> 0, ext |-> "inf"]
    ELSE [lo |-> 0, hi |-> 0, ext |-> "neg_inf"]

\* calculate_bounds with the fixed radius on both axes, whatever the canvas
calculate_boundsSquare(center_lat, center_lon, radius, width, height) ==
    LET c == project_point(center_lon, center_lat)
        x == BoundsAxis(c[1], radius, 1, 1)
        y == BoundsAxis(c[2], radius, 1, 1)
    IN  [min_x |-> x.lo, max_x |-> x.hi, min_y |-> y.lo, max_y |-> y.hi,
         x_ext |-> x.ext, y_ext |-> y.ext]

\* aspect = width / height; aspect > 1.0 stretches x by aspect, otherwise y is
\* divided by aspect (a NaN aspect, 0 / 0, compares false and takes that branch)
calculate_bounds(center_lat, center_lon, radius, width, height) ==
    LET c == project_point(center_lon, center_lat)
        wide == (height = 0 /\ width > 0) \/ (height > 0 /\ width > height)
        x == IF wide THEN BoundsAxis(c[1], radius, width, height)
             ELSE BoundsAxis(c[1], radius, 1, 1)
        y == IF wide THEN BoundsAxis(c[2], radius, 1, 1)
             ELSE BoundsAxis(c[2], radius, height, width)
    IN  [min_x |-> x.lo, max_x |-> x.hi, min_y |-> y.lo, max_y |-> y.hi,
         x_ext |-> x.ext, y_ext |-> y.ext]

\* BoundingBox::width / BoundingBox::height of a finite box
BoundingBox_width(b) == b.max_x - b.min_x

BoundingBox_height(b) == b.max_y - b.min_y

----------------------------------------------------------------------------
(* Inputs of the codec specification *)

\* values a buffer slot can hold: a negative, small counts / coordinates,
\* a count whose allocation a host short of memory refuses, and values at
\* which `count * 2` wraps or the cast saturates
Vals == {-1, 0, 1, 2, 3, UsizeModulus \div 32 - 1, UsizeModulus \div 2, UsizeModulus}

SeqsUpTo(S, n) == UNION {[1..k -> S] : k \in 0..n}

Prefixes(b) == {SubSeq(b, 1, k) : k \in 0..Len(b)}

\* one slot overwritten
Overwrites(b) == {[b EXCEPT ![i] = v] : i \in 1..Len(b), v \in Vals}

Concat2(S, T) == {x \o y : x \in S, y \in T}

\* road records {type, point_count, x1, y1, ...}; type 7 is outside 0..5
RoadRecords ==
    UNION {{<<t, 0>>, <<t, 1, 1, 2>>, <<t, 2, 1, 2, 3, 1>>} : t \in {0, 1, 7}}

RoadBuffers ==
    {<<0>>} \cup {<<1>> \o x : x \in RoadRecords}
            \cup {<<2>> \o x : x \in Concat2(RoadRecords, RoadRecords)}

\* polygon records {ext_count, interior_ring_count, exterior..., {ring_count, ring...}...}
PolygonRecords ==
    { <<3, 0, 0, 0, 3, 0, 0, 3>>,
      <<3, 1, 0, 0, 3, 0, 0, 3, 3, 1, 1, 2, 1, 1, 2>>,
      <<2, 1, 0, 0, 3, 0, 3, 1, 1, 2, 1, 1, 2>>,
      <<3, 2, 0, 0, 3, 0, 0, 3, 1, 1, 1, 3, 1, 1, 2, 1, 1, 2>>,
      <<0, 0>> }

PolygonBuffers ==
    {<<0>>} \cup {<<1>> \o x : x \in PolygonRecords}
            \cup {<<2>> \o x : x \in Concat2(PolygonRecords, PolygonRecords)}

Damaged(S) == UNION {Prefixes(b) \cup Overwrites(b) : b \in S}

Buffers == SeqsUpTo(Vals, MaxShort) \cup Damaged(RoadBuffers) \cup Damaged(PolygonBuffers)

\* renderer the binary draw routines are applied with: an 8 x 8 canvas over
\* the box [-4, 4] x [-4, 4], road width scale 4800 / 4800
CodecRenderer == [width |-> 8, height |-> 8, theme |-> Theme,
                  bounds |-> [min_x |-> -4, max_x |-> 4, min_y |-> -4, max_y |-> 4]]

NoOut == [status |-> "none"]

NoScene == [shards |-> <<>>]

NoReq == [parse_ok |-> FALSE]

NoRenderer == [created |-> FALSE]

NoResult == [returned |-> FALSE]

\* no render call in progress and none made
RenderIdle ==
    /\ scene = NoScene
    /\ entry = "none"
    /\ pc = "idle"
    /\ req = NoReq
    /\ orig = NoReq
    /\ renderer = NoRenderer
    /\ trace = <<>>
    /\ result = NoResult
    /\ done = <<>>

----------------------------------------------------------------------------
(* Codec specification: one routine applied to one buffer *)

CodecInit ==
    /\ data \in Buffers
    /\ overflow_checks \in BOOLEAN
    /\ alloc_limit \in AllocLimits
    /\ fn = "none"
    /\ out = NoOut
    /\ RenderIdle

Apply(name, res) ==
    /\ fn = "none"
    /\ fn' = name
    /\ out' = res
    /\ UNCHANGED <<data, overflow_checks, alloc_limit>>
    /\ UNCHANGED renderVars

ParseRoadsBin == Apply("parse_roads_bin", parse_roads_bin(data, overflow_checks, "degrees"))

ParsePolygonsBin == Apply("parse_polygons_bin", parse_polygons_bin(data, overflow_checks, "degrees"))

\* MapRenderer::new got its pixmap: Pixmap::new allocates width * height
\* pixels, so the draw routines run only on a host that grants that
CodecRendererCreated ==
    ~AllocFails(CodecRenderer.width * CodecRenderer.height, BytesPerPixel)

DrawRoadsBin ==
    /\ CodecRendererCreated
    /\ Apply("draw_roads_bin", draw_roads_bin(CodecRenderer, data, overflow_checks))

DrawRoadsBinScaled ==
    /\ CodecRendererCreated
    /\ Apply("draw_roads_bin_scaled",
             draw_roads_bin_scaled(CodecRenderer, data, overflow_checks,
                                   calculate_road_width_scale(PythonStandardHeightPx, 8)))

DrawPolygonsBin ==
    /\ CodecRendererCreated
    /\ Apply("draw_polygons_bin",
             draw_polygons_bin(CodecRenderer, data, overflow_checks, Theme.water))

ProcessRoadsBinWasm ==
    Apply("process_roads_bin_wasm", process_roads_bin_wasm(data, overflow_checks))

ProcessPolygonsBinWasm ==
    Apply("process_polygons_bin_wasm", process_polygons_bin_wasm(data, overflow_checks))

\* the re-packaged buffer is handed back to the decoder
ParseRoadsTyped ==
    /\ fn = "process_roads_bin_wasm"
    /\ out.status = "ok"
    /\ fn' = "roundtrip_roads"
    /\ out' = [status |-> "ok", encoded |-> out.feats, wire |-> out.wire,
               decoded |-> parse_roads_bin(out.wire, overflow_checks, "planar")]
    /\ UNCHANGED <<data, overflow_checks, alloc_limit>>
    /\ UNCHANGED renderVars

ParsePolygonsTyped ==
    /\ fn = "process_polygons_bin_wasm"
    /\ out.status = "ok"
    /\ fn' = "roundtrip_polygons"
    /\ out' = [status |-> "ok", encoded |-> out.feats, wire |-> out.wire,
               decoded |-> parse_polygons_bin(out.wire, overflow_checks, "planar")]
    /\ UNCHANGED <<data, overflow_checks, alloc_limit>>
    /\ UNCHANGED renderVars

CodecNext ==
    \/ ParseRoadsBin
    \/ DrawRoadsBin
    \/ ParsePolygonsBin
    \/ DrawRoadsBinScaled
    \/ DrawPolygonsBin
    \/ ProcessRoadsBinWasm
    \/ ProcessPolygonsBinWasm
    \/ ParseRoadsTyped
    \/ ParsePolygonsTyped

SpecCodec == CodecInit /\ [][CodecNext]_vars

----------------------------------------------------------------------------
(* Inputs of the render specification *)

MaxRoads == 2          \* roads in a scene
MaxCalls == 2          \* render calls the host makes on one scene

RoadA == [coords |-> <<<<-2, -2>>, <<2, 2>>>>, road_type |-> "Motorway"]
RoadB == [coords |-> <<<<-2, 2>>, <<2, -2>>>>, road_type |-> "Residential"]
RoadC == [coords |-> <<<<0, -3>>, <<0, 3>>>>, road_type |-> "Residential"]

SceneRoads == {RoadA, RoadB, RoadC}

\* square lake with a triangular island; triangular park
WaterW == [exterior |-> <<<<-3, -3>>, <<3, -3>>, <<3, 3>>, <<-3, 3>>>>,
           interiors |-> <<<<<<-1, -1>>, <<1, -1>>, <<0, 1>>>>>>]
ParkP == [exterior |-> <<<<1, 1>>, <<3, 1>>, <<2, 3>>>>, interiors |-> <<>>]

PoiQ == [x |-> 1, y |-> -1]

RECURSIVE Flatten(_)
Flatten(ss) == IF Len(ss) = 0 THEN <<>> ELSE ss[1] \o Flatten(Tail(ss))

NoRepeat(q) == \A i, j \in 1..Len(q) : i # j => q[i] # q[j]

\* lists of distinct scene roads, and every way of cutting such a list into
\* consecutive non-empty shards
RoadLists == {q \in SeqsUpTo(SceneRoads, MaxRoads) : NoRepeat(q)}

Shardings ==
    {ss \in SeqsUpTo(RoadLists \ {<<>>}, MaxRoads) : Flatten(ss) \in RoadLists}

Scenes ==
    [shards : Shardings, water : {<<>>, <<WaterW>>}, parks : {<<ParkP>>},
     pois : {<<>>, <<PoiQ>>}, font_ok : BOOLEAN, width : {0, 4}, height : {8},
     selected_size_height : {3508, 4800}]

----------------------------------------------------------------------------
(* types.rs: RenderResult *)

\* RenderResult::success with the two dimensions stored the wrong way round
RenderResult_successSwapped(width, height, png) ==
    [returned |-> TRUE, success |-> TRUE, width |-> height, height |-> width,
     data |-> [some |-> TRUE, png |-> png], error |-> [some |-> FALSE]]

RenderResult_success(width, height, png) ==
    [returned |-> TRUE, success |-> TRUE, width |-> width, height |-> height,
     data |-> [some |-> TRUE, png |-> png], error |-> [some |-> FALSE]]

RenderResult_error(msg) ==
    [returned |-> TRUE, success |-> FALSE, width |-> 0, height |-> 0,
     data |-> [some |-> FALSE], error |-> [some |-> TRUE, msg |-> msg]]

----------------------------------------------------------------------------
(* renderer.rs: construction and consumption of the renderer *)

\* Pixmap::new gives None for an empty canvas
MapRenderer_new(width, height, theme, bounds, text_position) ==
    IF width = 0 \/ height = 0 THEN NoRenderer
    ELSE [created |-> TRUE, width |-> width, height |-> height, theme |-> theme,
          bounds |-> bounds, text_position |-> text_position]

\* the PNG is an encoding of the pixmap, which is what the draw calls made of it
RECURSIVE PixmapOf(_)
PixmapOf(tr) == IF Len(tr) = 0 THEN <<>> ELSE tr[1].ops \o PixmapOf(Tail(tr))

encode_png(tr) == PixmapOf(tr)

LayerCall(layer, ops) == [layer |-> layer, ops |-> ops]

----------------------------------------------------------------------------
(* data_processor.rs / lib.rs: payload parsers of the JSON entry point *)

parse_roads(payload) == <<>>

parse_polygons(payload) == <<>>

parse_pois_json(payload) == <<>>

----------------------------------------------------------------------------
(* lib.rs: the render entry points *)

RenderInit ==
    /\ scene \in Scenes
    /\ entry = "none"
    /\ pc = "idle"
    /\ req = NoReq
    /\ orig = NoReq
    /\ renderer = NoRenderer
    /\ trace = <<>>
    /\ result = NoResult
    /\ done = <<>>
    /\ data = <<>>
    /\ fn = "none"
    /\ out = NoOut
    /\ overflow_checks = FALSE
    /\ alloc_limit = NoAllocLimit

Called(e) == \E i \in 1..Len(done) : done[i].entry = e

CanCall(e) == pc = "idle" /\ Len(done) < MaxCalls /\ ~Called(e)

\* Begin that goes on with the call when parsing failed
BeginIgnoringError(e, request, ok, msg, next) ==
    /\ entry' = e
    /\ req' = request
    /\ orig' = request
    /\ trace' = <<>>
    /\ renderer' = NoRenderer
    /\ pc' = next
    /\ result' = NoResult
    /\ UNCHANGED <<scene, done, data, fn, out, overflow_checks, alloc_limit>>

Begin(e, request, ok, msg, next) ==
    /\ entry' = e
    /\ req' = request
    /\ orig' = request
    /\ trace' = <<>>
    /\ renderer' = NoRenderer
    /\ IF ok THEN /\ pc' = next
                  /\ result' = NoResult
             ELSE /\ pc' = "done"
                  /\ result' = RenderResult_error(msg)
    /\ UNCHANGED <<scene, done, data, fn, out, overflow_checks, alloc_limit>>

\* render_map: the JSON request carries the layers as payload strings
RenderMap ==
    \E parse_ok \in BOOLEAN :
        /\ CanCall("render_map")
        /\ Begin("render_map",
                 IF parse_ok
                 THEN [parse_ok |-> TRUE, center |-> [lat |-> 0, lon |-> 0], radius |-> 4,
                       roads |-> parse_roads(Flatten(scene.shards)),
                       water |-> parse_polygons(scene.water),
                       parks |-> parse_polygons(scene.parks),
                       pois |-> parse_pois_json(scene.pois),
                       width |-> scene.width, height |-> scene.height,
                       text_position |-> "Top", needs_projection |-> FALSE,
                       selected_size_height |-> 3508, frontend_scale |-> 2]
                 ELSE NoReq,
                 parse_ok, "Failed to parse JSON request", "int_project")

\* render_map_msgpack: the request is the serialized RenderRequest
RenderMapMsgpack ==
    \E parse_ok \in BOOLEAN, needs_projection \in BOOLEAN :
        /\ CanCall("render_map_msgpack")
        /\ Begin("render_map_msgpack",
                 IF parse_ok
                 THEN [parse_ok |-> TRUE, center |-> [lat |-> 0, lon |-> 0], radius |-> 4,
                       roads |-> Flatten(scene.shards),
                       water |-> scene.water, parks |-> scene.parks, pois |-> scene.pois,
                       width |-> scene.width, height |-> scene.height,
                       text_position |-> "Top", needs_projection |-> needs_projection,
                       selected_size_height |-> scene.selected_size_height,
                       frontend_scale |-> 8]
                 ELSE NoReq,
                 parse_ok, "Failed to parse MessagePack request", "int_project")

\* the POI buffer [count, x1, y1, ...] of the configuration, declaring
\* `declared` points
PoiBuffer(pois, declared) ==
    <<declared>> \o FlattenCoords([i \in 1..Len(pois) |-> <<pois[i].x, pois[i].y>>])

\* render_map_binary: binary buffers plus the configuration JSON; roads_shards
\* is one Float64Array, an Array of them, or some other JS value
RenderMapBinary ==
    \E parse_ok \in BOOLEAN, kind \in {"array", "typed", "other"}, undeclared \in {0, 1} :
        /\ CanCall("render_map_binary")
        /\ ~parse_ok => undeclared = 0
        /\ kind = "typed" => Len(scene.shards) = 1
        /\ kind = "other" => Len(scene.shards) = 0
        /\ Begin("render_map_binary",
                 IF parse_ok
                 THEN [parse_ok |-> TRUE, center |-> [lat |-> 0, lon |-> 0], radius |-> 4,
                       roads_shards |->
                           [kind |-> kind,
                            bufs |-> [i \in 1..Len(scene.shards) |->
                                         EncodeRoads(scene.shards[i])]],
                       water_bin |-> EncodePolygons(scene.water),
                       parks_bin |-> EncodePolygons(scene.parks),
                       pois |-> IF Len(scene.pois) + undeclared = 0 THEN [some |-> FALSE]
                                ELSE [some |-> TRUE,
                                      buf |-> PoiBuffer(scene.pois,
                                                        Len(scene.pois) + undeclared)],
                       width |-> scene.width, height |-> scene.height,
                       text_position |-> "Top",
                       selected_size_height |-> scene.selected_size_height,
                       frontend_scale |-> 8]
                 ELSE NoReq,
                 parse_ok, "Config JSON parse failed", "bin_renderer")

Step(from, to) ==
    /\ pc = from
    /\ pc' = to
    /\ UNCHANGED <<scene, entry, orig, done, data, fn, out, overflow_checks, alloc_limit>>

Draw(from, to, layer, ops) ==
    /\ Step(from, to)
    /\ trace' = Append(trace, LayerCall(layer, ops))
    /\ UNCHANGED <<req, renderer, result>>

ProjectPolys(polys) ==
    [i \in 1..Len(polys) |->
        [exterior |-> project_points_mut(polys[i].exterior),
         interiors |-> [j \in 1..Len(polys[i].interiors) |->
                           project_points_mut(polys[i].interiors[j])]]]

\* IntProject that projects whatever needs_projection says
IntProjectAlways ==
    /\ Step("int_project", "int_renderer")
    /\ req' = [req EXCEPT
                 !.roads = [i \in 1..Len(@) |->
                               [@[i] EXCEPT !.coords = project_points_mut(@)]],
                 !.water = ProjectPolys(@),
                 !.parks = ProjectPolys(@),
                 !.pois = [i \in 1..Len(@) |->
                              LET c == project_points_mut(<<<<@[i].x, @[i].y>>>>)
                              IN  [x |-> c[1][1], y |-> c[1][2]]]]
    /\ UNCHANGED <<renderer, trace, result>>

\* render_map_internal: the optional projection pass
IntProject ==
    /\ Step("int_project", "int_renderer")
    /\ req' = IF req.needs_projection
              THEN [req EXCEPT
                      !.roads = [i \in 1..Len(@) |->
                                    [@[i] EXCEPT !.coords = project_points_mut(@)]],
                      !.water = ProjectPolys(@),
                      !.parks = ProjectPolys(@),
                      !.pois = [i \in 1..Len(@) |->
                                   LET c == project_points_mut(<<<<@[i].x, @[i].y>>>>)
                                   IN  [x |-> c[1][1], y |-> c[1][2]]]]
              ELSE req
    /\ UNCHANGED <<renderer, trace, result>>

\* bounds, then the renderer
CreateRenderer(from, to) ==
    /\ pc = from
    /\ LET r == MapRenderer_new(req.width, req.height, Theme,
                                calculate_bounds(req.center.lat, req.center.lon,
                                                 req.radius, req.width, req.height),
                                req.text_position)
       IN  IF r.created
           THEN /\ renderer' = r
                /\ pc' = to
                /\ UNCHANGED result
           ELSE /\ renderer' = NoRenderer
                /\ pc' = "done"
                /\ result' = RenderResult_error("Failed to create renderer")
    /\ UNCHANGED <<req, trace, scene, entry, orig, done, data, fn, out, overflow_checks, alloc_limit>>

\* a draw routine reading a binary buffer: a panic inside it traps the call
DrawBin(from, to, layer, res) ==
    /\ pc = from
    /\ IF res.status = "panic"
       THEN /\ pc' = "trap"
            /\ UNCHANGED trace
       ELSE /\ pc' = to
            /\ trace' = Append(trace, LayerCall(layer, res.ops))
    /\ UNCHANGED <<req, renderer, result, scene, entry, orig, done, data, fn, out,
                   overflow_checks, alloc_limit>>

\* DrawText that swallows the font error and goes on to encode
DrawTextIgnoringError(from, to) ==
    /\ pc = from
    /\ trace' = IF scene.font_ok THEN Append(trace, LayerCall("text", draw_text(renderer)))
                ELSE trace
    /\ pc' = to
    /\ UNCHANGED <<renderer, result>>
    /\ UNCHANGED <<req, scene, entry, orig, done, data, fn, out, overflow_checks, alloc_limit>>

\* draw_text: Err when the font does not load
DrawText(from, to) ==
    /\ pc = from
    /\ IF scene.font_ok
       THEN /\ trace' = Append(trace, LayerCall("text", draw_text(renderer)))
            /\ pc' = to
            /\ UNCHANGED <<renderer, result>>
       ELSE /\ result' = RenderResult_error("Failed to draw text: Failed to load font")
            /\ renderer' = NoRenderer
            /\ pc' = "done"
            /\ UNCHANGED trace
    /\ UNCHANGED <<req, scene, entry, orig, done, data, fn, out, overflow_checks, alloc_limit>>

\* encode_png consumes the renderer; the call returns the success variant
Encode(from) ==
    /\ pc = from
    /\ pc' = "done"
    /\ trace' = Append(trace, LayerCall("encode", <<>>))
    /\ result' = RenderResult_success(req.width, req.height, encode_png(trace))
    /\ renderer' = NoRenderer
    /\ UNCHANGED <<req, scene, entry, orig, done, data, fn, out, overflow_checks, alloc_limit>>

IntCreateRenderer == CreateRenderer("int_renderer", "int_background")

IntDrawBackground ==
    Draw("int_background", "int_water", "background", draw_background(renderer))

IntDrawWater == Draw("int_water", "int_parks", "water", draw_water(renderer, req.water))

IntDrawParks == Draw("int_parks", "int_roads", "parks", draw_parks(renderer, req.parks))

IntDrawRoads ==
    /\ pc = "int_roads"
    /\ \E order \in GroupOrders(req.roads) :
        Draw("int_roads", "int_pois", "roads",
             draw_roads_scaled(renderer, req.roads,
                               calculate_road_width_scale(req.selected_size_height,
                                                          req.frontend_scale),
                               order))

IntDrawPois ==
    /\ pc = "int_pois"
    /\ IF Len(req.pois) > 0
       THEN Draw("int_pois", "int_gradients", "pois", draw_pois(renderer, req.pois))
       ELSE Step("int_pois", "int_gradients") /\ UNCHANGED <<req, renderer, trace, result>>

\* IntDrawGradients that is followed by the encoding, the text call left out
IntDrawGradientsThenEncode ==
    Draw("int_gradients", "int_encode", "gradients", draw_gradients(renderer))

IntDrawGradients == Draw("int_gradients", "int_text", "gradients", draw_gradients(renderer))

IntDrawText == DrawText("int_text", "int_encode")

IntEncode == Encode("int_encode")

BinCreateRenderer == CreateRenderer("bin_renderer", "bin_background")

BinDrawBackground ==
    Draw("bin_background", "bin_water", "background", draw_background(renderer))

BinDrawWater ==
    DrawBin("bin_water", "bin_parks", "water",
            draw_polygons_bin(renderer, req.water_bin, overflow_checks, renderer.theme.water))

BinDrawParks ==
    DrawBin("bin_parks", "bin_roads", "parks",
            draw_polygons_bin(renderer, req.parks_bin, overflow_checks, renderer.theme.parks))

\* for shard_val in shards_array.iter() { draw_roads_bin_scaled(shard, scale) }
RECURSIVE ShardCalls(_, _, _, _)
ShardCalls(r, bufs, chk, scale_factor) ==
    IF Len(bufs) = 0 THEN [status |-> "ok", calls |-> <<>>]
    ELSE LET res == draw_roads_bin_scaled(r, bufs[1], chk, scale_factor)
         IN  IF res.status = "panic" THEN [status |-> "panic", calls |-> <<>>]
             ELSE LET rest == ShardCalls(r, Tail(bufs), chk, scale_factor)
                  IN  [rest EXCEPT !.calls = <<LayerCall("roads", res.ops)>> \o @]

\* an Array of shards is drawn shard by shard, a single Float64Array as one
\* shard, any other value not at all
BinDrawRoads ==
    /\ pc = "bin_roads"
    /\ LET sc == ShardCalls(renderer,
                            IF req.roads_shards.kind = "other" THEN <<>>
                            ELSE req.roads_shards.bufs,
                            overflow_checks,
                            calculate_road_width_scale(req.selected_size_height,
                                                       req.frontend_scale))
       IN  /\ trace' = trace \o sc.calls
           /\ pc' = IF sc.status = "panic" THEN "trap" ELSE "bin_pois"
    /\ UNCHANGED <<req, renderer, result, scene, entry, orig, done, data, fn, out,
                   overflow_checks, alloc_limit>>

\* the POI buffer is projected in a copy, then drawn
BinDrawPois ==
    /\ pc = "bin_pois"
    /\ IF req.pois.some /\ Len(req.pois.buf) > 0 /\ AsUsize(At(req.pois.buf, 0)) > 0
       THEN LET buf == req.pois.buf
                poi_count == AsUsize(At(buf, 0))
                rp == ReadPairs(buf, 1, poi_count)
                projected_pois == <<buf[1]>> \o FlattenCoords(project_points(rp.coords))
                                  \o SubSeq(buf, rp.off + 1, Len(buf))
            IN  DrawBin("bin_pois", "bin_gradients", "pois",
                        IF rp.oob THEN [status |-> "panic"]
                        ELSE [status |-> "ok",
                              ops |-> draw_pois_bin(renderer, projected_pois)])
       ELSE Step("bin_pois", "bin_gradients") /\ UNCHANGED <<req, renderer, trace, result>>

BinDrawGradients == Draw("bin_gradients", "bin_text", "gradients", draw_gradients(renderer))

BinDrawText == DrawText("bin_text", "bin_encode")

BinEncode == Encode("bin_encode")

\* the call is over: the host has the RenderResult, or a trap
Return ==
    /\ pc \in {"done", "trap"}
    /\ done' = Append(done, [entry |-> entry, req |-> orig, trace |-> trace,
                             result |-> result])
    /\ entry' = "none"
    /\ pc' = "idle"
    /\ req' = NoReq
    /\ orig' = NoReq
    /\ renderer' = NoRenderer
    /\ trace' = <<>>
    /\ result' = NoResult
    /\ UNCHANGED <<scene, data, fn, out, overflow_checks, alloc_limit>>

RenderNext ==
    \/ RenderMap
    \/ RenderMapMsgpack
    \/ RenderMapBinary
    \/ IntProject
    \/ IntCreateRenderer
    \/ IntDrawBackground
    \/ IntDrawWater
    \/ IntDrawParks
    \/ IntDrawRoads
    \/ IntDrawPois
    \/ IntDrawGradients
    \/ IntDrawText
    \/ IntEncode
    \/ BinCreateRenderer
    \/ BinDrawBackground
    \/ BinDrawWater
    \/ BinDrawParks
    \/ BinDrawRoads
    \/ BinDrawPois
    \/ BinDrawGradients
    \/ BinDrawText
    \/ BinEncode
    \/ Return

SpecRender == RenderInit /\ [][RenderNext]_vars

----------------------------------------------------------------------------
(* Function specification: one function of projection.rs, types.rs or
   renderer.rs applied to one input *)

\* canvas dimensions; 24 and 48 are divisible by every non-zero one, so the
\* stretched half-extent is a whole number
Dims == {0, 1, 2, 3, 4, 6, 8}

BoundsInputs ==
    [kind : {"bounds"}, center_lat : {0, 45}, center_lon : {0, 2}, radius : {0, 24, 48},
     width : Dims, height : Dims]

\* every u32 value
RoadTypeInputs == [kind : {"u32"}, val : 0..UsizeMax]

VariantInputs == [kind : {"variant"}, t : {RoadTypes[i] : i \in 1..Len(RoadTypes)}]

WidthInputs ==
    [kind : {"road_width"}, t : {RoadTypes[i] : i \in 1..Len(RoadTypes)},
     selected_size_height : {3508, PythonStandardHeightPx, 7016}, frontend_scale : {1, 2, 8}]

\* world points on and inside the box of every canvas of ScreenInputs
ScreenPoints == {<<x, y>> : x \in {-48, -24, 0, 12, 24, 48}, y \in {-48, -24, 0, 12, 24, 48}}

ScreenInputs ==
    [kind : {"screen"}, width : {4, 6, 8}, height : {3, 4, 8}, radius : {24},
     p : ScreenPoints, q : ScreenPoints]

\* roads of the 8 x 8 canvas over [-4, 4] x [-4, 4]: with no point, with one
\* point, with two and with three
RoadNoPoint == [coords |-> <<>>, road_type |-> "Primary"]
RoadOnePoint == [coords |-> <<<<1, 0>>>>, road_type |-> "Motorway"]
RoadThreePoints == [coords |-> <<<<-3, 3>>, <<0, 1>>, <<3, 3>>>>, road_type |-> "Default"]

RoadsInputs ==
    [kind : {"roads"},
     roads : SeqsUpTo({RoadA, RoadC, RoadNoPoint, RoadOnePoint, RoadThreePoints}, MaxShort)]

\* polygons of the same canvas: a second lake lying across the corner of
\* WaterW, a polygon whose exterior has two points, and a lake whose first
\* interior ring has two points
WaterOverlap == [exterior |-> <<<<1, 1>>, <<4, 1>>, <<4, 4>>, <<1, 4>>>>, interiors |-> <<>>]
PolyTwoPoints == [exterior |-> <<<<-3, -3>>, <<3, 3>>>>,
                  interiors |-> <<<<<<-1, -1>>, <<1, -1>>, <<0, 1>>>>>>]
PolyHoleTwoPoints == [exterior |-> <<<<-4, -4>>, <<0, -4>>, <<0, 0>>, <<-4, 0>>>>,
                      interiors |-> <<<<<<-3, -3>>, <<-1, -1>>>>,
                                      <<<<-3, -3>>, <<-1, -3>>, <<-2, -1>>>>>>]

PolysInputs ==
    [kind : {"polys"},
     polys : SeqsUpTo({WaterW, ParkP, WaterOverlap, PolyTwoPoints, PolyHoleTwoPoints}, 2)]

\* pixels a pixmap can hold: transparent, the opaque background, translucent,
\* and a faint grey
PixelKinds ==
    [transparent |-> [r |-> 0, g |-> 0, b |-> 0, a |-> 0],
     opaque |-> parse_hex_color(Theme.bg),
     translucent |-> [r |-> 60, g |-> 40, b |-> 20, a |-> 128],
     dim |-> [r |-> 15, g |-> 15, b |-> 15, a |-> 15]]

\* a pixmap of one kind of pixel, or of the three kinds in turn
NewPixmap(width, height, fill) ==
    [width |-> width, height |-> height, status |-> "ok",
     pixels |-> [i \in 1..(width * height) |->
                   IF fill = "mixed"
                   THEN PixelKinds[<<"transparent", "opaque", "translucent">>[(i % 3) + 1]]
                   ELSE PixelKinds[fill]]]

\* a height at which a band row has t = 1 / 32
TallHeight == 125

PixmapInputs ==
    [kind : {"pixmap"}, width : {1, 2}, height : 1..MaxHeight,
     fill : {"transparent", "opaque", "translucent", "mixed"}]
    \cup {[kind |-> "pixmap", width |-> 1, height |-> TallHeight, fill |-> "dim"]}

\* glyph bitmaps of coverage bytes, placed on and around a 3 x 2 pixmap
GlyphInputs ==
    UNION {[kind : {"glyph"}, fill : {"opaque", "mixed"},
            width : {w}, height : {h}, bitmap : [1..(w * h) -> {0, 128}],
            x : -2..3, y : -2..2] : w \in 1..MaxGlyph, h \in 1..MaxGlyph}

\* city names over Latin letters, a space, a letter whose upper case is two
\* chars, and a CJK letter
NameInputs ==
    [kind : {"name"}, name : SeqsUpTo({"P", "a", "r", " ", "U+00DF", "U+4E1C"}, MaxName)]

\* coordinates in whole degrees
LonLatInputs ==
    [kind : {"lonlat"}, lon : {-180, -179, -91, -1, 0, 1, 2, 90, 179, 180},
     lat : (0 - MaxLat)..MaxLat]

FnInputs ==
    LonLatInputs \cup NameInputs \cup BoundsInputs \cup RoadTypeInputs \cup VariantInputs \cup WidthInputs \cup ScreenInputs
    \cup RoadsInputs \cup PolysInputs \cup PixmapInputs \cup GlyphInputs

FnInit ==
    /\ data \in FnInputs
    /\ overflow_checks = FALSE
    /\ alloc_limit = NoAllocLimit
    /\ fn = "none"
    /\ out = NoOut
    /\ RenderIdle

CalculateBounds ==
    /\ data.kind = "bounds"
    /\ Apply("calculate_bounds",
             calculate_bounds(data.center_lat, data.center_lon, data.radius,
                              data.width, data.height))

\* the renderer the entry points build from a request: bounds, then new
NewRenderer ==
    /\ data.kind = "bounds"
    /\ Apply("MapRenderer_new",
             MapRenderer_new(data.width, data.height, Theme,
                             calculate_bounds(data.center_lat, data.center_lon, data.radius,
                                              data.width, data.height), "Top"))

FromU32 ==
    /\ data.kind = "u32"
    /\ Apply("from_u32", [t |-> from_u32(data.val)])

ToU32 ==
    /\ data.kind = "variant"
    /\ Apply("to_u32", [val |-> to_u32(data.t), back |-> from_u32(to_u32(data.t))])

\* the width of a stroke: calculate_road_width_scale, then get_width_scaled
RoadWidth ==
    /\ data.kind = "road_width"
    /\ LET scale == calculate_road_width_scale(data.selected_size_height, data.frontend_scale)
       IN  Apply("get_width_scaled",
                 [scale |-> scale, width |-> get_width_scaled(data.t, scale)])

\* the renderer of a canvas centred on (0, 0)
ScreenRenderer(width, height, radius) ==
    MapRenderer_new(width, height, Theme, calculate_bounds(0, 0, radius, width, height), "Top")

WorldToScreen ==
    /\ data.kind = "screen"
    /\ LET r == ScreenRenderer(data.width, data.height, data.radius)
       IN  Apply("world_to_screen",
                 [p |-> world_to_screen(r, data.p), q |-> world_to_screen(r, data.q),
                  min |-> world_to_screen(r, <<r.bounds.min_x, r.bounds.min_y>>),
                  max |-> world_to_screen(r, <<r.bounds.max_x, r.bounds.max_y>>)])

DrawRoadsScaled ==
    /\ data.kind = "roads"
    /\ \E order \in GroupOrders(data.roads) :
          Apply("draw_roads_scaled",
                [status |-> "ok",
                 ops |-> draw_roads_scaled(CodecRenderer, data.roads,
                             calculate_road_width_scale(PythonStandardHeightPx, 8), order)])

DrawRoads ==
    /\ data.kind = "roads"
    /\ \E order \in GroupOrders(data.roads) :
          Apply("draw_roads",
                [status |-> "ok", ops |-> draw_roads(CodecRenderer, data.roads, order)])

\* the same roads in the wire format, drawn by the binary routine
DrawRoadsEncoded ==
    /\ data.kind = "roads"
    /\ Apply("draw_roads_bin_scaled",
             draw_roads_bin_scaled(CodecRenderer, EncodeRoads(data.roads), overflow_checks,
                                   calculate_road_width_scale(PythonStandardHeightPx, 8)))

DrawWater ==
    /\ data.kind = "polys"
    /\ Apply("draw_water", [status |-> "ok", ops |-> draw_water(CodecRenderer, data.polys)])

DrawParks ==
    /\ data.kind = "polys"
    /\ Apply("draw_parks", [status |-> "ok", ops |-> draw_parks(CodecRenderer, data.polys)])

DrawPolygonsEncoded ==
    /\ data.kind = "polys"
    /\ Apply("draw_polygons_bin",
             draw_polygons_bin(CodecRenderer, EncodePolygons(data.polys), overflow_checks,
                               Theme.water))

\* draw_gradients on a pixmap, with the factors of the two bands
DrawGradients ==
    /\ data.kind = "pixmap"
    /\ LET pm == draw_gradients_pixels(NewPixmap(data.width, data.height, data.fill), Theme)
       IN  Apply("draw_gradients",
                 [status |-> pm.status, pixels |-> pm.pixels,
                  top |-> GradientFactors(data.height, "top"),
                  bottom |-> GradientFactors(data.height, "bottom")])

DrawGlyphBitmap ==
    /\ data.kind = "glyph"
    /\ LET pm == draw_glyph_bitmap(NewPixmap(3, 2, data.fill), data.bitmap, data.width,
                                   data.height, data.x, data.y, parse_hex_color(Theme.text))
       IN  Apply("draw_glyph_bitmap", [status |-> pm.status, pixels |-> pm.pixels])

FormatCityName ==
    /\ data.kind = "name"
    /\ Apply("format_city_name",
             [text |-> format_city_name(data.name), latin |-> is_latin_script(data.name)])

ProjectPoint ==
    /\ data.kind = "lonlat"
    /\ Apply("project_point",
             [x |-> project_point(data.lon, data.lat)[1],
              y |-> project_point(data.lon, data.lat)[2]])

FnNext ==
    \/ ProjectPoint
    \/ FormatCityName
    \/ NewRenderer
    \/ DrawGradients
    \/ DrawGlyphBitmap
    \/ CalculateBounds
    \/ FromU32
    \/ ToU32
    \/ RoadWidth
    \/ WorldToScreen
    \/ DrawRoads
    \/ DrawRoadsScaled
    \/ DrawRoadsEncoded
    \/ DrawWater
    \/ DrawParks
    \/ DrawPolygonsEncoded

SpecFn == FnInit /\ [][FnNext]_vars

----------------------------------------------------------------------------
(* Codec claims *)

\* the road records that lie wholly inside the buffer, up to the first one
\* whose header or declared points do not, at most k of them (exact integers)
RECURSIVE ContainedRoadsFrom(_, _, _)
ContainedRoadsFrom(d, off, k) ==
    IF k = 0 \/ off + 2 > Len(d) THEN <<>>
    ELSE LET n == AsUsize(At(d, off + 1))
         IN  IF off + 2 + 2 * n > Len(d) THEN <<>>
             ELSE <<[coords |-> project_points(PairsAt(d, off + 2, n)),
                     road_type |-> from_u32(AsUsize(At(d, off)))]>>
                  \o ContainedRoadsFrom(d, off + 2 + 2 * n, k - 1)

ContainedRoads(d) ==
    IF Len(d) = 0 THEN <<>> ELSE ContainedRoadsFrom(d, 1, AsUsize(At(d, 0)))

\* the k declared rings starting at off, or "cut" when one of them does not fit
RECURSIVE ContainedRings(_, _, _)
ContainedRings(d, off, k) ==
    IF k = 0 THEN [cut |-> FALSE, rings |-> <<>>, off |-> off]
    ELSE IF off + 1 > Len(d) THEN [cut |-> TRUE, rings |-> <<>>, off |-> off]
    ELSE LET n == AsUsize(At(d, off))
         IN  IF off + 1 + 2 * n > Len(d) THEN [cut |-> TRUE, rings |-> <<>>, off |-> off]
             ELSE LET rest == ContainedRings(d, off + 1 + 2 * n, k - 1)
                  IN  [rest EXCEPT !.rings = <<project_points(PairsAt(d, off + 1, n))>> \o @]

\* the polygons whose exterior ring and every declared interior ring lie wholly
\* inside the buffer, up to the first polygon for which one of them does not
RECURSIVE ContainedPolygonsFrom(_, _, _)
ContainedPolygonsFrom(d, off, k) ==
    IF k = 0 \/ off + 2 > Len(d) THEN <<>>
    ELSE LET n == AsUsize(At(d, off))
             m == AsUsize(At(d, off + 1))
         IN  IF off + 2 + 2 * n > Len(d) THEN <<>>
             ELSE LET rs == ContainedRings(d, off + 2 + 2 * n, m)
                  IN  IF rs.cut THEN <<>>
                      ELSE <<[exterior |-> project_points(PairsAt(d, off + 2, n)),
                              interiors |-> rs.rings]>>
                           \o ContainedPolygonsFrom(d, rs.off, k - 1)

ContainedPolygons(d) ==
    IF Len(d) = 0 THEN <<>> ELSE ContainedPolygonsFrom(d, 1, AsUsize(At(d, 0)))

\* C1: parse_roads_bin returns Ok, for every buffer, with exactly the road
\* records that lie wholly inside the buffer before the first record that
\* does not fit
C1_RoadsPartialDecode ==
    fn = "parse_roads_bin" => out.status = "ok" /\ out.feats = ContainedRoads(data)

\* C2: whenever parse_polygons_bin returns, it returns exactly the polygons
\* whose exterior and all declared interior rings were read in full before the
\* first record that does not fit, and nothing built from later data
C2_PolygonsPartialDecode ==
    fn = "parse_polygons_bin" /\ out.status = "ok" => out.feats = ContainedPolygons(data)

BinaryReaders ==
    {"parse_roads_bin", "parse_polygons_bin", "draw_roads_bin_scaled", "draw_polygons_bin"}

\* C3: when no offset computation overflows, the four binary readers index the
\* buffer only below its length, whatever counts it declares (no index panic)
C3_ReadsInBounds ==
    fn \in BinaryReaders /\ ~out.ovf =>
        /\ \A i \in out.reads : i < Len(data)
        /\ out.why # "index out of bounds"

\* a road record declaring 2 points with only one pair present was met and
\* decoding stopped after its header
C3_Witness ==
    /\ fn = "draw_roads_bin_scaled"
    /\ data = <<1, 0, 2, 1, 2>>
    /\ out.status = "ok"
    /\ ~out.ovf
    /\ out.reads = {0, 1, 2}

\* planar coordinates that were not projected a second time
KeptCoords(coords) ==
    [i \in 1..Len(coords) |-> <<[planar |-> coords[i][1], again |-> FALSE],
                                [planar |-> coords[i][2], again |-> FALSE]>>]

KeptRoads(roads) ==
    [i \in 1..Len(roads) |-> [coords |-> KeptCoords(roads[i].coords),
                               road_type |-> roads[i].road_type]]

KeptPolygons(polys) ==
    [i \in 1..Len(polys) |->
        [exterior |-> KeptCoords(polys[i].exterior),
         interiors |-> [j \in 1..Len(polys[i].interiors) |->
                           KeptCoords(polys[i].interiors[j])]]]

\* C6: encoding a feature collection in the wire format and decoding it again
\* gives back the same collection
C6_DecodeEncodeRoundTrip ==
    /\ fn = "roundtrip_roads" =>
           out.decoded.status = "ok" /\ out.decoded.feats = KeptRoads(out.encoded)
    /\ fn = "roundtrip_polygons" =>
           out.decoded.status = "ok" /\ out.decoded.feats = KeptPolygons(out.encoded)

\* C26: in the four binary readers no bounds check and no offset advance
\* wraps around, whatever counts the buffer declares, so no record passes a
\* check through overflow
C26_NoWrapInBoundsChecks ==
    fn \in BinaryReaders => (~out.ovf /\ out.why # "arithmetic overflow")

----------------------------------------------------------------------------
(* Render claims *)

\* what a call drew in the water, park and road layers
RECURSIVE MapLayers(_)
MapLayers(tr) ==
    IF Len(tr) = 0 THEN <<>>
    ELSE (IF tr[1].layer \in {"water", "parks", "roads"} THEN tr[1].ops ELSE <<>>)
         \o MapLayers(Tail(tr))

Succeeded(call) == call.result.returned /\ call.result.success

\* the call was given the scene's planar coordinates as they are
PreProjected(call) == call.entry = "render_map_msgpack" => ~call.req.needs_projection

\* C4: on the same map data and configuration the three entry points draw the
\* same water, park and road features with the same colours and widths
C4_EntryPointsAgree ==
    \A i, j \in 1..Len(done) :
        (/\ Succeeded(done[i]) /\ Succeeded(done[j])
         /\ PreProjected(done[i]) /\ PreProjected(done[j])
         /\ scene.selected_size_height = 3508)
        => MapLayers(done[i].trace) = MapLayers(done[j].trace)

LayerRank(layer) ==
    CASE layer = "background" -> 1
      [] layer = "water" -> 2
      [] layer = "parks" -> 3
      [] layer = "roads" -> 4
      [] layer = "pois" -> 5
      [] layer = "gradients" -> 6
      [] layer = "text" -> 7
      [] layer = "encode" -> 8

LayersOf(tr) == {tr[i].layer : i \in 1..Len(tr)}

\* C5: the layer calls come in the order background, water, parks, roads,
\* points of interest, gradients, text at every moment of a call, and a call
\* that returns success has made all the fixed ones and encoded last
C5_LayerOrder ==
    /\ \A i, j \in 1..Len(trace) :
          i < j => /\ LayerRank(trace[i].layer) <= LayerRank(trace[j].layer)
                   /\ trace[i].layer = trace[j].layer => trace[i].layer = "roads"
    /\ (pc = "done" /\ result.success) =>
          /\ {"background", "water", "parks", "gradients", "text", "encode"}
                \subseteq LayersOf(trace)
          /\ trace[Len(trace)].layer = "encode"
          /\ trace[Len(trace) - 1].layer = "text"
          /\ entry # "render_map_binary" => "roads" \in LayersOf(trace)

\* a binary render of two road shards and a POI has returned success
C5_Witness ==
    /\ pc = "done"
    /\ result.success
    /\ entry = "render_map_binary"
    /\ Len(scene.shards) = 2
    /\ "pois" \in LayersOf(trace)

ProjectOnce(coords) == [i \in 1..Len(coords) |-> project_point(coords[i][1], coords[i][2])]

ProjectPolysOnce(polys) ==
    [i \in 1..Len(polys) |->
        [exterior |-> ProjectOnce(polys[i].exterior),
         interiors |-> [j \in 1..Len(polys[i].interiors) |->
                           ProjectOnce(polys[i].interiors[j])]]]

\* C7: past the projection pass of render_map_internal the coordinates of the
\* request are those received when needs_projection is false, and each of them
\* passed through project_point once when it is true
C7_ProjectionOnlyOnRequest ==
    (entry \in {"render_map", "render_map_msgpack"} /\ orig.parse_ok /\ pc # "int_project") =>
        IF orig.needs_projection
        THEN /\ req.roads = [i \in 1..Len(orig.roads) |->
                                [coords |-> ProjectOnce(orig.roads[i].coords),
                                 road_type |-> orig.roads[i].road_type]]
             /\ req.water = ProjectPolysOnce(orig.water)
             /\ req.parks = ProjectPolysOnce(orig.parks)
             /\ req.pois = [i \in 1..Len(orig.pois) |->
                               [x |-> project_point(orig.pois[i].x, orig.pois[i].y)[1],
                                y |-> project_point(orig.pois[i].x, orig.pois[i].y)[2]]]
        ELSE req = orig

\* a pre-projected request with roads, water and a POI is about to be drawn
C7_Witness ==
    /\ entry = "render_map_msgpack"
    /\ pc = "int_background"
    /\ ~orig.needs_projection
    /\ Len(orig.roads) = 2
    /\ Len(orig.water) = 1
    /\ Len(orig.pois) = 1

RoadOps(tr) ==
    LET RECURSIVE Ops(_)
        Ops(t) == IF Len(t) = 0 THEN <<>>
                  ELSE (IF t[1].layer = "roads" THEN t[1].ops ELSE <<>>) \o Ops(Tail(t))
    IN  Ops(tr)

\* position of the stroke that paints the road, 0 when no stroke does
PaintIndex(r, ops, road) ==
    LET sub == [pts |-> ToScreen(r, road.coords), closed |-> FALSE]
        hits == {i \in 1..Len(ops) : \E k \in 1..Len(ops[i].path) : ops[i].path[k] = sub}
    IN  IF hits = {} THEN 0 ELSE CHOOSE i \in hits : \A k \in hits : k <= i

\* C8: whatever the split of the road records into shards, of two roads of
\* different classes the one painted over the other is the one painted over
\* it when all records are in a single buffer
C8_ShardingKeepsClassOrder ==
    (entry = "render_map_binary" /\ pc = "bin_pois" /\ req.roads_shards.kind # "other") =>
        LET all == Flatten(scene.shards)
            single == draw_roads_bin_scaled(renderer, EncodeRoads(all), overflow_checks,
                          calculate_road_width_scale(req.selected_size_height,
                                                     req.frontend_scale)).ops
            sharded == RoadOps(trace)
        IN  \A a, b \in 1..Len(all) :
                all[a].road_type # all[b].road_type =>
                    (PaintIndex(renderer, sharded, all[a]) < PaintIndex(renderer, sharded, all[b])
                     <=> PaintIndex(renderer, single, all[a]) < PaintIndex(renderer, single, all[b]))

\* C9: a call whose request or configuration does not parse is over at once
\* with the failure variant and an error string, no renderer and no draw call
C9_ParseFailureAborts ==
    (entry # "none" /\ ~orig.parse_ok) =>
        /\ pc = "done"
        /\ result.returned /\ ~result.success
        /\ result.error.some /\ ~result.data.some
        /\ ~renderer.created
        /\ trace = <<>>

\* render_map_binary was called with a configuration that does not parse
C9_Witness ==
    /\ entry = "render_map_binary"
    /\ ~orig.parse_ok
    /\ pc = "done"
    /\ Len(scene.shards) > 0

\* C10: when the font does not load in draw_text the call returns the failure
\* variant with an error string and no pixel data; the pixmap with the layers
\* drawn so far is dropped and nothing is encoded
C10_FontFailureDiscards ==
    (pc = "done" /\ ~scene.font_ok /\ "gradients" \in LayersOf(trace)) =>
        /\ result.returned /\ ~result.success
        /\ result.error.some /\ ~result.data.some
        /\ result.width = 0 /\ result.height = 0
        /\ "encode" \notin LayersOf(trace)
        /\ "text" \notin LayersOf(trace)
        /\ ~renderer.created

\* the layers up to the gradients were drawn and the font then failed
C10_Witness ==
    /\ pc = "done"
    /\ ~scene.font_ok
    /\ entry = "render_map_msgpack"
    /\ LayersOf(trace) = {"background", "water", "parks", "roads", "pois", "gradients"}
    /\ ~result.success

\* C11: a returned RenderResult is a success exactly when it has pixel data
\* and no error string; a failure has an error string, no data and width =
\* height = 0; a success has the requested width and height and the PNG of
\* what was drawn
C11_RenderResultInvariant ==
    \A rr \in ({[res |-> result, rq |-> orig, tr |-> trace]}
               \cup {[res |-> done[i].result, rq |-> done[i].req, tr |-> done[i].trace] :
                        i \in 1..Len(done)}) :
        rr.res.returned =>
            /\ rr.res.success <=> (rr.res.data.some /\ ~rr.res.error.some)
            /\ ~rr.res.success =>
                  /\ rr.res.error.some /\ ~rr.res.data.some
                  /\ rr.res.width = 0 /\ rr.res.height = 0
            /\ rr.res.success =>
                  /\ rr.res.width = rr.rq.width /\ rr.res.height = rr.rq.height
                  /\ rr.res.data.png = PixmapOf(rr.tr)

\* a binary render of a 4 x 8 canvas has returned success
C11_Witness ==
    /\ pc = "done"
    /\ entry = "render_map_binary"
    /\ result.returned /\ result.success
    /\ result.width = 4 /\ result.height = 8
    /\ result.data.some

\* the POI buffer of the configuration declares more points than it holds
PoiBufferShort(rq) ==
    /\ rq.parse_ok
    /\ rq.pois.some
    /\ AsUsize(At(rq.pois.buf, 0)) > (Len(rq.pois.buf) - 1) \div 2

\* C12: in render_map_binary a POI buffer that declares more points than it
\* holds is read only inside its length and the call goes on to return a result
C12_PoiTruncationNonFatal ==
    (entry = "render_map_binary" /\ PoiBufferShort(orig)) => pc # "trap"

----------------------------------------------------------------------------
(* Function claims *)

\* C13: for radius > 0, width > 0 and height > 0 the box of calculate_bounds
\* has positive width and height in the ratio width : height of the canvas,
\* and is narrower than tall for a portrait canvas
C13_BoundsAspect ==
    (fn = "calculate_bounds" /\ data.radius > 0 /\ data.width > 0 /\ data.height > 0) =>
        /\ out.x_ext = "finite" /\ out.y_ext = "finite"
        /\ BoundingBox_width(out) > 0
        /\ BoundingBox_height(out) > 0
        /\ BoundingBox_width(out) * data.height = BoundingBox_height(out) * data.width
        /\ data.width < data.height => BoundingBox_width(out) < BoundingBox_height(out)

\* the box of a 3 : 4 portrait canvas at latitude 45, radius 24: 48 wide, 64 tall
C13_Witness ==
    /\ fn = "calculate_bounds"
    /\ data.radius = 24 /\ data.width = 3 /\ data.height = 4 /\ data.center_lat = 45
    /\ BoundingBox_width(out) = 48
    /\ BoundingBox_height(out) = 64

\* the axis lo..hi is centred on c with half-extent exactly / at least radius
AxisCentred(lo, hi, ext, c) == ext = "finite" /\ lo + hi = 2 * c

HalfExtentIs(lo, hi, ext, radius) == ext = "finite" /\ hi - lo = 2 * radius

HalfExtentAtLeast(lo, hi, ext, radius) ==
    ext = "inf" \/ (ext = "finite" /\ hi - lo >= 2 * radius)

\* the box is centred on the projected centre, with half-extent radius on one
\* axis and at least radius on the other
CentredNeverShrunk(box, center_lat, center_lon, radius) ==
    LET c == project_point(center_lon, center_lat)
    IN  /\ AxisCentred(box.min_x, box.max_x, box.x_ext, c[1])
        /\ AxisCentred(box.min_y, box.max_y, box.y_ext, c[2])
        /\ \/ /\ HalfExtentIs(box.min_x, box.max_x, box.x_ext, radius)
              /\ HalfExtentAtLeast(box.min_y, box.max_y, box.y_ext, radius)
           \/ /\ HalfExtentIs(box.min_y, box.max_y, box.y_ext, radius)
              /\ HalfExtentAtLeast(box.min_x, box.max_x, box.x_ext, radius)

\* C14 as stated: for radius > 0 and every canvas size the box is centred on
\* the projected centre, with half-extent exactly radius on one axis and at
\* least radius on the other
C14_BoundsNeverShrinkAnyCanvas ==
    (fn = "calculate_bounds" /\ data.radius > 0) =>
        CentredNeverShrunk(out, data.center_lat, data.center_lon, data.radius)

\* C14, amended: for radius > 0 and every canvas with width > 0 and height > 0
\* the box is centred on the projected centre, with half-extent exactly
\* radius on one axis and at least radius on the other
C14_BoundsNeverShrink ==
    (fn = "calculate_bounds" /\ data.radius > 0 /\ data.width > 0 /\ data.height > 0) =>
        CentredNeverShrunk(out, data.center_lat, data.center_lon, data.radius)

\* the box of an 8 : 3 landscape canvas, radius 24: x stretched to 64, y kept
C14_Witness ==
    /\ fn = "calculate_bounds"
    /\ data.radius = 24 /\ data.width = 8 /\ data.height = 3
    /\ out.max_x - out.min_x = 128
    /\ out.max_y - out.min_y = 48

\* the integer code of each variant
StableCode ==
    [Motorway |-> 0, Primary |-> 1, Secondary |-> 2, Tertiary |-> 3, Residential |-> 4,
     Default |-> 5]

\* C15: to_u32 gives Motorway..Default the codes 0..5, from_u32 gives back
\* the variant of a code, and every value above 5 decodes to Default
C15_RoadTypeEncoding ==
    /\ fn = "to_u32" => /\ out.val = StableCode[data.t]
                        /\ out.back = data.t
    /\ fn = "from_u32" =>
          /\ data.val <= 5 => StableCode[out.t] = data.val
          /\ data.val > 5 => out.t = "Default"

\* Default was encoded as 5 and decoded back through the catch-all arm
C15_Witness ==
    /\ fn = "to_u32"
    /\ data.t = "Default"
    /\ out.val = 5
    /\ out.back = "Default"

\* the base widths, in tenths of a pixel
BaseWidthTenths ==
    [Motorway |-> 12, Primary |-> 10, Secondary |-> 8, Tertiary |-> 6, Residential |-> 4,
     Default |-> 4]

\* C16: the stroke width of class t at selected height h and multiplier m is
\* base_width(t) * h / 4800 whatever m is; the scale at h = 4800 is 1.0 and
\* Motorway then has width 1.2 (widths are counted in 1/48000 pixel, the
\* scale in 1/4800)
C16_RoadWidthScale ==
    fn = "get_width_scaled" =>
        /\ out.width = BaseWidthTenths[data.t] * data.selected_size_height
        /\ data.selected_size_height = 4800 =>
              /\ out.scale = 4800
              /\ data.t = "Motorway" => out.width = 12 * 4800

\* Motorway at height 4800 with multiplier 8
C16_Witness ==
    /\ fn = "get_width_scaled"
    /\ data.t = "Motorway" /\ data.selected_size_height = 4800 /\ data.frontend_scale = 8
    /\ out.scale = 4800
    /\ out.width = 57600

\* C17: world_to_screen sends the box corner (min_x, min_y) to (0, height),
\* the corner (max_x, max_y) to (width, 0) and the centre to the middle of
\* the canvas; a larger world y never gives a larger screen y, a larger world
\* x never a smaller screen x
C17_WorldToScreenLinear ==
    fn = "world_to_screen" =>
        /\ out.min = <<0, data.height>>
        /\ out.max = <<data.width, 0>>
        /\ data.p = <<0, 0>> => out.p = <<data.width \div 2, data.height - data.height \div 2>>
        /\ data.p[2] > data.q[2] => out.p[2] <= out.q[2]
        /\ data.p[1] > data.q[1] => out.p[1] >= out.q[1]

\* on the 4 x 8 canvas the point (12, 24) lies right of and above the centre
C17_Witness ==
    /\ fn = "world_to_screen"
    /\ data.width = 4 /\ data.height = 8
    /\ data.p = <<12, 24>> /\ data.q = <<0, 0>>
    /\ out.p = <<3, 2>> /\ out.q = <<2, 4>>

RoadDraws == {"draw_roads_scaled", "draw_roads_bin_scaled"}

PolygonDraws == {"draw_water", "draw_parks", "draw_polygons_bin"}

\* the roads of class t that have 2 or more points, in input order
DrawableRoads(roads, t) ==
    SelectSeq(roads, LAMBDA road : road.road_type = t /\ Len(road.coords) >= 2)

\* the theme colour of each class
ClassColour ==
    [Motorway |-> Theme.road_motorway, Primary |-> Theme.road_primary,
     Secondary |-> Theme.road_secondary, Tertiary |-> Theme.road_tertiary,
     Residential |-> Theme.road_residential, Default |-> Theme.road_default]

\* C18: one call of draw_roads_scaled or draw_roads_bin_scaled strokes each
\* class that has a road of 2 or more points exactly once, with the colour of
\* the class and the width base_width * scale, and no other class: at most 6
\* strokes however many roads there are
C18_OneStrokePerClass ==
    fn \in RoadDraws =>
        /\ out.status = "ok"
        /\ Len(out.ops) <= 6
        /\ \A t \in DOMAIN StableCode :
              Cardinality({i \in 1..Len(out.ops) : out.ops[i].class = t})
                  = IF Len(DrawableRoads(data.roads, t)) > 0 THEN 1 ELSE 0
        /\ \A i \in 1..Len(out.ops) :
              /\ out.ops[i].op = "stroke"
              /\ out.ops[i].color = ClassColour[out.ops[i].class]
              /\ out.ops[i].width = BaseWidthTenths[out.ops[i].class] * PythonStandardHeightPx

\* two Motorway roads and a Residential one drawn from the binary buffer in
\* two strokes
C18_Witness ==
    /\ fn = "draw_roads_bin_scaled"
    /\ data.roads = <<RoadA, RoadC, RoadA>>
    /\ Len(out.ops) = 2
    /\ Len(out.ops[1].path) = 2

\* a sequence is a subsequence of another
RECURSIVE IsSubseq(_, _)
IsSubseq(a, b) ==
    IF Len(a) = 0 THEN TRUE
    ELSE IF Len(b) = 0 THEN FALSE
    ELSE IF a[1] = b[1] THEN IsSubseq(Tail(a), Tail(b))
    ELSE IsSubseq(a, Tail(b))

\* the rings of 3 or more points of the polygons whose exterior has 3 or more
RECURSIVE GoodRings(_)
GoodRings(polys) ==
    IF Len(polys) = 0 THEN <<>>
    ELSE (IF Len(polys[1].exterior) < 3 THEN <<>>
          ELSE LET holes == SelectSeq(polys[1].interiors, LAMBDA ring : Len(ring) >= 3)
               IN  <<[pts |-> ToScreen(CodecRenderer, polys[1].exterior), closed |-> TRUE]>>
                   \o [k \in 1..Len(holes) |->
                          [pts |-> ToScreen(CodecRenderer, holes[k]), closed |-> TRUE]])
         \o GoodRings(Tail(polys))

\* C19: roads of fewer than 2 points and rings of fewer than 3 are in no path
\* and raise no error, and the roads and rings around them are all drawn, in
\* the binary routines too, where the records after them are read at the
\* right offsets
C19_DegenerateSkipped ==
    /\ fn \in RoadDraws =>
          /\ out.status = "ok"
          /\ \A t \in DOMAIN StableCode :
                Len(DrawableRoads(data.roads, t)) > 0 =>
                    \E i \in 1..Len(out.ops) :
                        /\ out.ops[i].class = t
                        /\ out.ops[i].path =
                              [k \in 1..Len(DrawableRoads(data.roads, t)) |->
                                  [pts |-> ToScreen(CodecRenderer,
                                                    DrawableRoads(data.roads, t)[k].coords),
                                   closed |-> FALSE]]
    /\ fn \in PolygonDraws =>
          /\ out.status = "ok"
          /\ \A i \in 1..Len(out.ops) :
                \A k \in 1..Len(out.ops[i].path) : Len(out.ops[i].path[k].pts) >= 3
          /\ Len(GoodRings(data.polys)) > 0 =>
                /\ Len(out.ops) = 1
                /\ IsSubseq(GoodRings(data.polys), out.ops[1].path)

\* a one-point road and an empty road stood before a Motorway road in the
\* binary buffer, and the Motorway road was drawn
C19_Witness ==
    /\ fn = "draw_roads_bin_scaled"
    /\ data.roads = <<RoadOnePoint, RoadNoPoint, RoadA>>
    /\ Len(out.ops) = 1
    /\ out.ops[1].path = <<[pts |-> ToScreen(CodecRenderer, RoadA.coords), closed |-> FALSE]>>

\* the point lies inside the exterior ring of the feature and outside its
\* interior rings, on the screen
InFeature(poly, pt) ==
    /\ InsideRing(ToScreen(CodecRenderer, poly.exterior), pt)
    /\ \A k \in 1..Len(poly.interiors) :
          ~InsideRing(ToScreen(CodecRenderer, poly.interiors[k]), pt)

\* C20: a polygon layer is filled at most once, with the even-odd rule, and
\* a pixel gets the fill colour exactly when it lies inside the exterior ring
\* of some feature and outside the interior rings of that feature
C20_EvenOddFill ==
    fn \in PolygonDraws =>
        /\ Len(out.ops) <= 1
        /\ \A i \in 1..Len(out.ops) : out.ops[i].op = "fill" /\ out.ops[i].rule = "EvenOdd"
        /\ \A pt \in PixelCentres(CodecRenderer) :
              (\E i \in 1..Len(out.ops) : EvenOddCovers(out.ops[i].path, pt))
              <=> (\E k \in 1..Len(data.polys) : InFeature(data.polys[k], pt))

\* C23: a renderer is constructed only when the canvas width and height are
\* positive and the bounding box has max > min on both axes
C23_RendererNeedsBox ==
    (fn = "MapRenderer_new" /\ out.created) =>
        /\ data.width > 0 /\ data.height > 0
        /\ out.bounds.x_ext = "finite" /\ out.bounds.y_ext = "finite"
        /\ out.bounds.max_x > out.bounds.min_x
        /\ out.bounds.max_y > out.bounds.min_y

\* the upper case of the letters of the alphabet of names
UpperOf ==
    [c \in {"P", "a", "r", " ", "U+00DF", "U+4E1C"} |->
        CASE c = "a" -> <<"A">> [] c = "r" -> <<"R">> [] c = "U+00DF" -> <<"S", "S">>
          [] OTHER -> <<c>>]

RECURSIVE UpperChars(_)
UpperChars(name) == IF Len(name) = 0 THEN <<>> ELSE UpperOf[name[1]] \o UpperChars(Tail(name))

\* C24: for a Latin-script name of 1 or more chars format_city_name gives the
\* chars of its upper case with exactly two spaces between neighbours and
\* nothing before the first or after the last; a name that is not Latin
\* script is returned unchanged
C24_FormatCityName ==
    (fn = "format_city_name" /\ Len(data.name) >= 1) =>
        IF out.latin
        THEN LET up == UpperChars(data.name)
             IN  /\ Len(out.text) = 3 * Len(up) - 2
                 /\ \A k \in 1..Len(out.text) :
                       out.text[k] = IF k % 3 = 1 THEN up[(k + 2) \div 3] ELSE " "
        ELSE out.text = data.name

\* "Par" became "P  A  R"
C24_Witness ==
    /\ fn = "format_city_name"
    /\ data.name = <<"P", "a", "r">>
    /\ out.latin
    /\ out.text = <<"P", " ", " ", "A", " ", " ", "R">>

----------------------------------------------------------------------------
(* Pixel claims *)

\* the pixmap the gradient input describes, before the call
GradientBefore == NewPixmap(data.width, data.height, data.fill).pixels

\* C21: draw_gradients leaves every pixel of a row between the top band
\* [0, height / 4) and the bottom band [3 * height / 4, height) unchanged, and
\* every pixel of a band row whose factor gives a source alpha of 0
C21_GradientFrame ==
    fn = "draw_gradients" =>
        \A i \in 1..(data.width * data.height) :
              LET y == (i - 1) \div data.width
              IN  /\ (y >= data.height \div 4 /\ y < (3 * data.height) \div 4)
                        => out.pixels[i] = GradientBefore[i]
                  /\ (y \in DOMAIN out.top /\ out.top[y].num = 0)
                        => out.pixels[i] = GradientBefore[i]
                  /\ (y \in DOMAIN out.bottom /\ out.bottom[y].num = 0)
                        => out.pixels[i] = GradientBefore[i]

\* on an opaque 2 x 8 pixmap the top row and the last row were blended, row 6
\* (factor 0) and the rows 2..5 were not
C21_Witness ==
    /\ fn = "draw_gradients"
    /\ out.status = "ok"
    /\ data.width = 2 /\ data.height = 8 /\ data.fill = "opaque"
    /\ out.pixels[1] # GradientBefore[1]
    /\ out.pixels[16] # GradientBefore[16]
    /\ out.pixels[13] = GradientBefore[13]
    /\ out.pixels[5] = GradientBefore[5]

\* the pixmap the glyph input describes, before the call
GlyphBefore == NewPixmap(3, 2, data.fill).pixels

\* C22: draw_glyph_bitmap changes pixel (px, py) of the pixmap, at index
\* py * width + px, only when it lies under a glyph pixel of coverage above 0;
\* glyph pixels outside the pixmap are dropped without error and change no
\* pixel of another row
C22_GlyphClipped ==
    fn = "draw_glyph_bitmap" =>
        /\ out.status = "ok"
        /\ DOMAIN out.pixels = 1..6
        /\ \A i \in 1..6 :
              LET dx == ((i - 1) % 3) - data.x
                  dy == ((i - 1) \div 3) - data.y
                  inside == dx >= 0 /\ dx < data.width /\ dy >= 0 /\ dy < data.height
              IN  IF inside /\ data.bitmap[dy * data.width + dx + 1] > 0
                  THEN out.pixels[i] # GlyphBefore[i]
                  ELSE out.pixels[i] = GlyphBefore[i]

\* a 2 x 2 glyph over the right edge: column 2 was blended, the glyph pixels
\* of column 3 did not land on column 0 of the next row
C22_Witness ==
    /\ fn = "draw_glyph_bitmap"
    /\ data.width = 2 /\ data.height = 2 /\ data.x = 2 /\ data.y = 0
    /\ \A k \in 1..4 : data.bitmap[k] = 128
    /\ out.pixels[3] # GlyphBefore[3]
    /\ out.pixels[6] # GlyphBefore[6]
    /\ out.pixels[4] = GlyphBefore[4]

\* C30: the top and bottom gradient bands are mirror images: they have the
\* same number of rows and row y of the top band has the factor of row
\* height - 1 - y of the bottom band
C30_GradientMirror ==
    fn = "draw_gradients" =>
        /\ Cardinality(DOMAIN out.top) = Cardinality(DOMAIN out.bottom)
        /\ \A y \in DOMAIN out.top :
              /\ (data.height - 1 - y) \in DOMAIN out.bottom
              /\ out.top[y].num * out.bottom[data.height - 1 - y].den
                    = out.bottom[data.height - 1 - y].num * out.top[y].den

----------------------------------------------------------------------------
(* Claims on the structured and the binary path of one layer *)

\* the number of roads in the stroke of class t
RoadsStroked(ops, t) ==
    LET S == {i \in 1..Len(ops) : ops[i].class = t}
    IN  IF S = {} THEN 0 ELSE Len(ops[CHOOSE i \in S : TRUE].path)

\* C27: a roads buffer is drawn the same way by parse_roads_bin followed by
\* draw_roads_scaled and by draw_roads_bin_scaled: each class gets the same
\* number of roads on both paths, a record whose type value is outside 0..5
\* being a Default road on both
C27_UnknownTypeSameOnBothPaths ==
    (fn = "draw_roads_bin_scaled" /\ out.status = "ok"
        /\ parse_roads_bin(data, overflow_checks, "degrees").status = "ok") =>
        \A order \in GroupOrders(parse_roads_bin(data, overflow_checks, "degrees").feats) :
            \A t \in DOMAIN StableCode :
                RoadsStroked(out.ops, t)
                    = RoadsStroked(draw_roads_scaled(CodecRenderer,
                                       parse_roads_bin(data, overflow_checks, "degrees").feats,
                                       calculate_road_width_scale(PythonStandardHeightPx, 8),
                                       order), t)

\* the rings of the one fill of a polygon layer
RingsFilled(ops) == IF Len(ops) = 0 THEN <<>> ELSE ops[1].path

\* C28: on the structured and on the binary path the filled path of a polygon
\* layer holds exactly the rings of 3 or more points of the polygons whose
\* exterior ring has 3 or more points: a polygon with a shorter exterior adds
\* nothing, its interior rings included
C28_DegenerateExteriorAddsNothing ==
    fn \in PolygonDraws => RingsFilled(out.ops) = GoodRings(data.polys)

\* C29: draw_roads_scaled strokes the classes in the order draw_roads_bin_scaled
\* uses, Motorway first and Default last, whatever the run
C29_StrokeOrderFixed ==
    fn = "draw_roads_scaled" =>
        \A i, j \in 1..Len(out.ops) :
            i < j => StableCode[out.ops[i].class] < StableCode[out.ops[j].class]

====
